---- MODULE Spec2Model ----
(***************************************************************************)
(* Model of the rigid-body contact simulator of physics.h: PhysicsWorld,   *)
(* PhysicsObject, the fixed-step stepper runToTime and its relaxation pass.*)
(*                                                                         *)
(* Numbers.  The program computes in float/double; the model computes in   *)
(* fixed point and rounds every quotient toward zero (RDiv):               *)
(*   length    1 unit = 0.001            (distanceEPS = 0.002 = 2 units)   *)
(*   time      1 tick = timeEPS * stepDuration = 1/300000 s                *)
(*   velocity  1 unit = one length unit per fixed step (0.03 /s)           *)
(*   factors   per mille (bounceFactor, slideFactor)                       *)
(***************************************************************************)
EXTENDS Integers, Sequences, FiniteSets, TLC

(* ---------------------------- bounds ---------------------------------- *)
MaxBodies == 2
MaxHalfSteps == 3

(* ------------------------- program constants -------------------------- *)
stepDuration == 10000
TimeEpsInv == 10000
distanceEPS == 2
GravityNum == 98
GravityDen == 9
DefaultBounce == 707
DefaultSlide == 293
One == 1000
MaxPasses == 10
xScaleFactor == 5
zScaleFactor == 5
StepsPerSecond == 30

Overworld == "Overworld"
Last == "Last"
Dimension == {Overworld, Last}

(* a shared_ptr is <<>> when null and <<v>> when it points to v *)
nullptr == <<>>

make_shared(v) == <<v>>

(* --------------------------- arithmetic ------------------------------- *)
RDiv(a, b) == IF a >= 0 THEN a \div b ELSE -((-a) \div b)

Ceil(n, d) == -((-n) \div d)

Abs(a) == IF a < 0 THEN -a ELSE a

limit(v, minV, maxV) == IF v > maxV THEN maxV ELSE IF minV > v THEN minV ELSE v

sgn(v) == IF v < 0 THEN -1 ELSE IF v > 0 THEN 1 ELSE 0

ifloor(v) == v \div One

iceil(v) == Ceil(v, One)

interpolateHalf(a, b) == a + RDiv(b - a, 2)

VectorF(x, y, z) == [x |-> x, y |-> y, z |-> z]

PositionF(x, y, z, d) == [x |-> x, y |-> y, z |-> z, d |-> d]

VAdd(a, b) == VectorF(a.x + b.x, a.y + b.y, a.z + b.z)

VSub(a, b) == VectorF(a.x - b.x, a.y - b.y, a.z - b.z)

PAddV(p, v) == PositionF(p.x + v.x, p.y + v.y, p.z + v.z, p.d)

(* deltaTime * v : ticks times units-per-step *)
VScaleTime(dt, v) == VectorF(RDiv(dt * v.x, stepDuration), RDiv(dt * v.y, stepDuration), RDiv(dt * v.z, stepDuration))

(* deltaTime * gravityVector *)
GravityVelocity(dt) == VectorF(0, -RDiv(dt * GravityNum, GravityDen * stepDuration), 0)

(* 0.5f * deltaTime * deltaTime * gravityVector *)
GravityFall(dt) == VectorF(0, -RDiv(RDiv(dt * dt, stepDuration) * GravityNum, 2 * GravityDen * stepDuration), 0)

PhysicsProperties(bounceFactor, slideFactor) == [bounceFactor |-> limit(bounceFactor, 0, One), slideFactor |-> limit(slideFactor, 0, One)]

(* ------------------------------ state --------------------------------- *)
VARIABLES
    currentTime,        \* PhysicsWorld::currentTime
    variableSetIndex,   \* PhysicsWorld::variableSetIndex
    objects,            \* PhysicsWorld::objects, as its iteration order
    changedObjects,     \* PhysicsWorld::changedObjects (keys)
    obj,                \* every PhysicsObject made so far, by handle
    pc,                 \* position inside runToTime
    startTime,          \* currentTime at entry of runToTime
    stopTime,           \* argument of runToTime
    stepCount,          \* local of runToTime
    stepI,              \* outer loop index
    passI,              \* inner loop index
    anyCollisions,      \* local of runToTime
    collideObjectsList, \* fallback candidates of the pass
    overallHashTable,   \* hashed bodies of the pass, in insertion order
    resolveI,           \* index of objectA in the resolution loop
    queryCell,          \* index of the cell the query walk of objectA is at
    supportLog,         \* isSupportedBy(A,B) evaluations of the pass
    adjustLog,          \* adjustPosition(A,B) calls of the pass, in order
    constraintLog,      \* constraint applications of the pass, in order
    pipe,               \* struct Pipe of a StreamPipe: lock, closed, buffer
    threadPc,           \* position of the reader and of the writer thread
    written,            \* the bytes passed to writeByte so far
    received            \* the bytes returned by readByte so far

vars == <<currentTime, variableSetIndex, objects, changedObjects, obj, pc, startTime, stopTime, stepCount, stepI, passI, anyCollisions, collideObjectsList, overallHashTable, resolveI, queryCell, supportLog, adjustLog, constraintLog, pipe, threadPc, written, received>>

pipeVars == <<pipe, threadPc, written, received>>

worldVars == <<currentTime, variableSetIndex>>

callVars == <<startTime, stopTime, stepCount, stepI, passI, anyCollisions>>

passVars == <<collideObjectsList, overallHashTable, resolveI, queryCell>>

logVars == <<supportLog, adjustLog, constraintLog>>

getOldVariableSetIndex == variableSetIndex

getNewVariableSetIndex == 1 - variableSetIndex

Range(s) == {s[i] : i \in DOMAIN s}

(* --------------------------- PhysicsObject ---------------------------- *)
isAffectedByGravity(o) == o.affectedByGravity

isSupported(o) == o.supported

isStatic(o) == o.isStatic_

isDestroyed(o) == o.destroyed

getExtents(o) == o.extents

getProperties(o) == o.properties

(* mutant: the read uses the slot being written *)
getPosition_NewSlot(o) ==
    LET i == getNewVariableSetIndex
        deltaTime == currentTime - o.objectTime[i]
        moved == PAddV(o.position[i], VScaleTime(deltaTime, o.velocity[i]))
    IN  IF o.affectedByGravity /\ ~isSupported(o)
        THEN PAddV(moved, GravityFall(deltaTime))
        ELSE moved

(* mutant: gravity acts on every body it affects, supported or not *)
getPosition_IgnoresSupport(o) ==
    LET i == getOldVariableSetIndex
        deltaTime == currentTime - o.objectTime[i]
        moved == PAddV(o.position[i], VScaleTime(deltaTime, o.velocity[i]))
    IN  IF o.affectedByGravity
        THEN PAddV(moved, GravityFall(deltaTime))
        ELSE moved

getPosition(o) ==
    LET i == getOldVariableSetIndex
        deltaTime == currentTime - o.objectTime[i]
        moved == PAddV(o.position[i], VScaleTime(deltaTime, o.velocity[i]))
    IN  IF o.affectedByGravity /\ ~isSupported(o)
        THEN PAddV(moved, GravityFall(deltaTime))
        ELSE moved

getVelocity(o) ==
    LET i == getOldVariableSetIndex
        deltaTime == currentTime - o.objectTime[i]
    IN  IF ~o.affectedByGravity \/ isSupported(o)
        THEN o.velocity[i]
        ELSE VAdd(o.velocity[i], GravityVelocity(deltaTime))

(* mutant: the slot times start at 0 instead of the world's current time *)
PhysicsObjectCtor_TimeZero(in, garbage) ==
    [position |-> [i \in {0, 1} |-> in.position],
     velocity |-> [i \in {0, 1} |-> in.velocity],
     objectTime |-> [i \in {0, 1} |-> 0],
     affectedByGravity |-> in.affectedByGravity,
     isStatic_ |-> in.isStatic,
     supported |-> garbage,
     destroyed |-> FALSE,
     extents |-> in.extents,
     latestUpdateTag |-> 0,
     newStateCount |-> 0,
     properties |-> PhysicsProperties(DefaultBounce, DefaultSlide),
     constraints |-> nullptr,
     made |-> in]

(* the constructor: properties and supported are not in its initializer    *)
(* list, so properties is default-constructed and supported is left with   *)
(* an indeterminate value (garbage)                                        *)
PhysicsObjectCtor(in, garbage) ==
    [position |-> [i \in {0, 1} |-> in.position],
     velocity |-> [i \in {0, 1} |-> in.velocity],
     objectTime |-> [i \in {0, 1} |-> currentTime],
     affectedByGravity |-> in.affectedByGravity,
     isStatic_ |-> in.isStatic,
     supported |-> garbage,
     destroyed |-> FALSE,
     extents |-> in.extents,
     latestUpdateTag |-> 0,
     newStateCount |-> 0,
     properties |-> PhysicsProperties(DefaultBounce, DefaultSlide),
     constraints |-> nullptr,
     made |-> in]

(* mutant: the last writer wins, nothing is averaged *)
setNewState_LastWins(o, newPosition, newVelocity) ==
    LET i == getNewVariableSetIndex
    IN  [o EXCEPT !.objectTime[i] = currentTime,
                  !.newStateCount = @ + 1,
                  !.position[i] = newPosition,
                  !.velocity[i] = newVelocity,
                  !.latestUpdateTag = @ + 1]

(* lines 226-241 *)
setNewState(o, newPosition, newVelocity) ==
    LET i == getNewVariableSetIndex
        n == o.newStateCount
        p == o.position[i]
        v == o.velocity[i]
        avgP == PositionF(RDiv(newPosition.x + p.x * n, n + 1), RDiv(newPosition.y + p.y * n, n + 1), RDiv(newPosition.z + p.z * n, n + 1), newPosition.d)
        avgV == VectorF(RDiv(newVelocity.x + v.x * n, n + 1), RDiv(newVelocity.y + v.y * n, n + 1), RDiv(newVelocity.z + v.z * n, n + 1))
    IN  [o EXCEPT !.objectTime[i] = currentTime,
                  !.newStateCount = n + 1,
                  !.position[i] = avgP,
                  !.velocity[i] = avgV,
                  !.latestUpdateTag = @ + 1]

(* mutant: the copy goes from the new slot to the old slot *)
setupNewState_Reversed(o) ==
    LET old == getOldVariableSetIndex
        new == getNewVariableSetIndex
    IN  [o EXCEPT !.objectTime[old] = o.objectTime[new],
                  !.position[old] = o.position[new],
                  !.velocity[old] = o.velocity[new],
                  !.newStateCount = 0]

(* mutant: the time of the old slot is not copied *)
setupNewState_NoTime(o) ==
    LET old == getOldVariableSetIndex
        new == getNewVariableSetIndex
    IN  [o EXCEPT !.position[new] = o.position[old],
                  !.velocity[new] = o.velocity[old],
                  !.newStateCount = 0]

(* lines 243-252 *)

setupNewState(o) ==
    LET old == getOldVariableSetIndex
        new == getNewVariableSetIndex
    IN  [o EXCEPT !.objectTime[new] = o.objectTime[old],
                  !.position[new] = o.position[old],
                  !.velocity[new] = o.velocity[old],
                  !.newStateCount = 0]

(* mutant: the dimension test of line 260 is left out *)
collides_NoDimension(l, r) ==
    LET lPosition == getPosition(l)
        rPosition == getPosition(r)
        lExtents == l.extents
        rExtents == r.extents
    IN  /\ ~(lPosition.x - lExtents.x - distanceEPS > rPosition.x + rExtents.x)
        /\ ~(rPosition.x - rExtents.x - distanceEPS > lPosition.x + lExtents.x)
        /\ ~(lPosition.y - lExtents.y - distanceEPS > rPosition.y + rExtents.y)
        /\ ~(rPosition.y - rExtents.y - distanceEPS > lPosition.y + lExtents.y)
        /\ ~(lPosition.z - lExtents.z - distanceEPS > rPosition.z + rExtents.z)
        /\ ~(rPosition.z - rExtents.z - distanceEPS > lPosition.z + lExtents.z)

collides(l, r) ==
    LET lPosition == getPosition(l)
        rPosition == getPosition(r)
        lExtents == l.extents
        rExtents == r.extents
    IN  IF lPosition.d # rPosition.d THEN FALSE
        ELSE IF lPosition.x - lExtents.x - distanceEPS > rPosition.x + rExtents.x THEN FALSE
        ELSE IF rPosition.x - rExtents.x - distanceEPS > lPosition.x + lExtents.x THEN FALSE
        ELSE IF lPosition.y - lExtents.y - distanceEPS > rPosition.y + rExtents.y THEN FALSE
        ELSE IF rPosition.y - rExtents.y - distanceEPS > lPosition.y + lExtents.y THEN FALSE
        ELSE IF lPosition.z - lExtents.z - distanceEPS > rPosition.z + rExtents.z THEN FALSE
        ELSE IF rPosition.z - rExtents.z - distanceEPS > lPosition.z + lExtents.z THEN FALSE
        ELSE TRUE

(* mutant: the comparisons are not strict, so that X wins ties and Y wins over Z *)
SeparatingAxis_XFirst(surfaceOffset) ==
    IF surfaceOffset.x <= surfaceOffset.y /\ surfaceOffset.x <= surfaceOffset.z THEN "x"
    ELSE IF surfaceOffset.y <= surfaceOffset.z THEN "y"
    ELSE "z"

(* the separating axis of adjustPosition: the first strict minimum test   *)
SeparatingAxis(surfaceOffset) ==
    IF surfaceOffset.x < surfaceOffset.y /\ surfaceOffset.x < surfaceOffset.z THEN "x"
    ELSE IF surfaceOffset.y < surfaceOffset.z THEN "y"
    ELSE "z"

(* mutant: a static rt is given no more weight than a dynamic one *)
InterpolationT_Half(rt) == 1

(* lines 549-554: interpolationT and interpolationTY, in halves *)
InterpolationT(rt) == IF isStatic(rt) THEN 2 ELSE 1

InterpolationTY(rt) == IF isSupported(rt) THEN 2 ELSE InterpolationT(rt)

(* line 547 *)
SurfaceOffset(extentsSum, rawDelta) ==
    VectorF(extentsSum.x - Abs(rawDelta.x) + distanceEPS * 2,
            extentsSum.y - Abs(rawDelta.y) + distanceEPS * 2,
            extentsSum.z - Abs(rawDelta.z) + distanceEPS * 2)

(* lines 556-561: zero components of deltaPosition become distanceEPS *)
Nudged(rawDelta) ==
    VectorF(IF rawDelta.x = 0 THEN distanceEPS ELSE rawDelta.x,
            IF rawDelta.y = 0 THEN distanceEPS ELSE rawDelta.y,
            IF rawDelta.z = 0 THEN distanceEPS ELSE rawDelta.z)

(* lines 564, 569, 574 *)
Normal(axis, deltaPosition) ==
    VectorF(IF axis = "x" THEN sgn(deltaPosition.x) ELSE 0,
            IF axis = "y" THEN sgn(deltaPosition.y) ELSE 0,
            IF axis = "z" THEN sgn(deltaPosition.z) ELSE 0)

(* lines 565, 570, 575: normal is zero off the chosen axis *)
MovedPosition(rt, aPosition, surfaceOffset, normal) ==
    PositionF(aPosition.x + RDiv(InterpolationT(rt) * normal.x * surfaceOffset.x, 2),
              aPosition.y + RDiv(InterpolationTY(rt) * normal.y * surfaceOffset.y, 2),
              aPosition.z + RDiv(InterpolationT(rt) * normal.z * surfaceOffset.z, 2),
              aPosition.d)

dot(a, b) == a.x * b.x + a.y * b.y + a.z * b.z

(* mutant: the normal part of the impulse is bounceA * bounceB, without the 1 + *)
Impulse_NoRebound(a, rt, dv, n, dotDN) ==
    LET bounce == RDiv(a.properties.bounceFactor * rt.properties.bounceFactor, One)
        slide == RDiv((One - a.properties.slideFactor) * (One - rt.properties.slideFactor), One)
    IN  RDiv((bounce * dotDN * n + slide * (dv - n * dotDN)) * InterpolationT(rt), 2 * One)

(* line 578, one component of the amount taken off aVelocity *)
Impulse(a, rt, dv, n, dotDN) ==
    LET bounce == One + RDiv(a.properties.bounceFactor * rt.properties.bounceFactor, One)
        slide == RDiv((One - a.properties.slideFactor) * (One - rt.properties.slideFactor), One)
    IN  RDiv((bounce * dotDN * n + slide * (dv - n * dotDN)) * InterpolationT(rt), 2 * One)

(* mutant: the velocities are always averaged, approaching or not *)
NewVelocity_Inelastic(a, rt, aVelocity, bVelocity, deltaVelocity, normal, dotDN) ==
    VectorF(interpolateHalf(aVelocity.x, bVelocity.x),
            interpolateHalf(aVelocity.y, bVelocity.y),
            interpolateHalf(aVelocity.z, bVelocity.z))

(* lines 577-580 *)
NewVelocity(a, rt, aVelocity, bVelocity, deltaVelocity, normal, dotDN) ==
    IF dotDN < 0
    THEN VectorF(aVelocity.x - Impulse(a, rt, deltaVelocity.x, normal.x, dotDN),
                 aVelocity.y - Impulse(a, rt, deltaVelocity.y, normal.y, dotDN),
                 aVelocity.z - Impulse(a, rt, deltaVelocity.z, normal.z, dotDN))
    ELSE VectorF(interpolateHalf(aVelocity.x, bVelocity.x),
                 interpolateHalf(aVelocity.y, bVelocity.y),
                 interpolateHalf(aVelocity.z, bVelocity.z))

(* lines 562-581 *)
AdjustAlong(a, rt, aPosition, aVelocity, bVelocity, deltaVelocity, surfaceOffset, normal) ==
    setNewState(a, MovedPosition(rt, aPosition, surfaceOffset, normal),
                NewVelocity(a, rt, aVelocity, bVelocity, deltaVelocity, normal, dot(deltaVelocity, normal)))

(* lines 544-561 *)
AdjustFrom(a, rt, aPosition, aVelocity, bVelocity, rawDelta, surfaceOffset) ==
    AdjustAlong(a, rt, aPosition, aVelocity, bVelocity, VSub(aVelocity, bVelocity), surfaceOffset,
                Normal(SeparatingAxis(surfaceOffset), Nudged(rawDelta)))

AdjustWith(a, rt, aPosition, aVelocity, bVelocity, rawDelta) ==
    AdjustFrom(a, rt, aPosition, aVelocity, bVelocity, rawDelta,
               SurfaceOffset(VAdd(getExtents(a), getExtents(rt)), rawDelta))

AdjustRead(a, rt, aPosition, bPosition) ==
    AdjustWith(a, rt, aPosition, getVelocity(a), getVelocity(rt), VSub(aPosition, bPosition))

(* mutant: the isStatic test of lines 538-539 is left out *)
adjustPosition_NoStaticTest(a, rt) == AdjustRead(a, rt, getPosition(a), getPosition(rt))

(* lines 536-582 *)

adjustPosition(a, rt) ==
    IF isStatic(a) THEN a
    ELSE AdjustRead(a, rt, getPosition(a), getPosition(rt))

(* mutant: the band is measured from the bottom of a to the top of rt *)
isSupportedBy_BottomBand(a, rt) ==
    IF isStatic(a) THEN TRUE
    ELSE IF ~isSupported(rt) /\ ~isStatic(rt) THEN FALSE
    ELSE
    LET aPosition == getPosition(a)
        bPosition == getPosition(rt)
        extentsSum == VAdd(a.extents, rt.extents)
        deltaPosition == VSub(aPosition, bPosition)
    IN  IF aPosition.d # bPosition.d THEN FALSE
        ELSE /\ deltaPosition.x + distanceEPS > -extentsSum.x
             /\ deltaPosition.x - distanceEPS < extentsSum.x
             /\ deltaPosition.z + distanceEPS > -extentsSum.z
             /\ deltaPosition.z - distanceEPS < extentsSum.z
             /\ deltaPosition.y - extentsSum.y >= 0
             /\ deltaPosition.y - extentsSum.y <= distanceEPS * 4 + extentsSum.y

(* lines 584-608 *)
isSupportedBy(a, rt) ==
    IF isStatic(a) THEN TRUE
    ELSE IF ~isSupported(rt) /\ ~isStatic(rt) THEN FALSE
    ELSE
    LET aPosition == getPosition(a)
        bPosition == getPosition(rt)
        extentsSum == VAdd(a.extents, rt.extents)
        deltaPosition == VSub(aPosition, bPosition)
    IN  IF aPosition.d # bPosition.d THEN FALSE
        ELSE /\ deltaPosition.x + distanceEPS > -extentsSum.x
             /\ deltaPosition.x - distanceEPS < extentsSum.x
             /\ deltaPosition.z + distanceEPS > -extentsSum.z
             /\ deltaPosition.z - distanceEPS < extentsSum.z
             /\ deltaPosition.y > 0
             /\ deltaPosition.y < distanceEPS * 4 + extentsSum.y

(* ---------------------------- constraints ----------------------------- *)
(* a PhysicsConstraint is a caller-supplied callback; the model knows an   *)
(* empty std::function ("null") and two callbacks that do not commute      *)
PinPosition == PositionF(-1000, -4000, 0, Overworld)

ApplyConstraint(kind, state) ==
    IF kind = "pin" THEN [position |-> PinPosition, velocity |-> VectorF(0, 0, 0)]
    ELSE IF kind = "shift" THEN [position |-> [state.position EXCEPT !.x = @ + 100], velocity |-> state.velocity]
    ELSE state

ConstraintLists == {make_shared(<<"pin", "null", "shift">>)}

(* ------------------------------ inputs -------------------------------- *)
Box == VectorF(500, 500, 500)

MakeInputs ==
    { \* the floor of main.cpp
      [position |-> PositionF(0, -5500, 0, Overworld), velocity |-> VectorF(0, 0, 0), affectedByGravity |-> FALSE, isStatic |-> TRUE, extents |-> VectorF(5000, 500, 5000), bounceFactor |-> DefaultBounce, slideFactor |-> DefaultSlide],
      \* a box resting just above the floor, PhysicsProperties(0.9f)
      [position |-> PositionF(500, -4495, 0, Overworld), velocity |-> VectorF(0, 0, 0), affectedByGravity |-> TRUE, isStatic |-> FALSE, extents |-> Box, bounceFactor |-> 900, slideFactor |-> DefaultSlide],
      \* a box overlapping the former, moving into it, factors out of range
      [position |-> PositionF(900, -4495, 0, Overworld), velocity |-> VectorF(-30, 0, 0), affectedByGravity |-> TRUE, isStatic |-> FALSE, extents |-> Box, bounceFactor |-> 1500, slideFactor |-> -200],
      \* a box at the same coordinates in the other dimension
      [position |-> PositionF(500, -4495, 0, Last), velocity |-> VectorF(0, 0, 0), affectedByGravity |-> TRUE, isStatic |-> FALSE, extents |-> Box, bounceFactor |-> DefaultBounce, slideFactor |-> DefaultSlide],
      \* a static body made with a velocity and the gravity flag
      [position |-> PositionF(3000, 0, 0, Overworld), velocity |-> VectorF(30, 0, 0), affectedByGravity |-> TRUE, isStatic |-> TRUE, extents |-> Box, bounceFactor |-> DefaultBounce, slideFactor |-> DefaultSlide] }

(* stepTime(0), a delta of timeEPS * stepDuration, one step, and one and a half steps *)
StepDeltas == {0, 1, stepDuration, stepDuration + stepDuration \div 2}

(* what the queries of a handle return *)
Observe(o) == [position |-> getPosition(o), velocity |-> getVelocity(o), supported |-> isSupported(o)]

Perms(s) == {p \in [1..Len(s) -> Range(s)] : \A i, j \in 1..Len(s) : i # j => p[i] # p[j]}

(* ------------------------------ the pipe ------------------------------ *)
(* stream.cpp line 31 has bufferSize = 32768; the model takes a capacity   *)
(* small enough for the buffer to fill and the indices to wrap             *)
bufferSize == 2

(* number of writeByte calls of the writer thread *)
MaxWrites == 4

(* the values passed to writeByte *)
Bytes == {1, 2}

(* circularDeque<uint8_t, bufferSize + 1> *)
arraySize == bufferSize + 1

circularDeque == [frontIndex |-> 0, backIndex |-> 0, array |-> [i \in 0..(arraySize - 1) |-> 0]]

(* const_iterator::operator - of cend() and cbegin() *)
size(d) ==
    LET loc0 == d.backIndex + arraySize - d.frontIndex
        loc == IF loc0 >= arraySize THEN loc0 - arraySize ELSE loc0
        rloc0 == d.frontIndex + arraySize - d.frontIndex
        rloc == IF rloc0 >= arraySize THEN rloc0 - arraySize ELSE rloc0
    IN  loc - rloc

empty(d) == d.frontIndex = d.backIndex

front(d) == d.array[d.frontIndex]

push_back(d, v) ==
    [d EXCEPT !.array[d.backIndex] = v,
              !.backIndex = IF d.backIndex + 1 >= arraySize THEN 0 ELSE d.backIndex + 1]

pop_front(d) ==
    [d EXCEPT !.array[d.frontIndex] = 0,
              !.frontIndex = IF d.frontIndex + 1 >= arraySize THEN 0 ELSE d.frontIndex + 1]

(* condition_variable_any::notify_all: the threads inside wait leave it *)
notify_all(tp) ==
    [t \in DOMAIN tp |-> IF tp[t] = "readWait" THEN "readWake"
                         ELSE IF tp[t] = "writeWait" THEN "writeWake"
                         ELSE tp[t]]

(* mutant: the writer tests the size against one more than the capacity *)
HasRoom_OneMore(d) == size(d) <= bufferSize

(* line 110: if(pipe->buffer.size() < bufferSize) *)
HasRoom(d) == size(d) < bufferSize

(* StreamPipe::StreamPipe: an open, empty pipe, both ends unused *)
StreamPipeCtor ==
    /\ pipe = [lock |-> "free", closed |-> FALSE, buffer |-> circularDeque]
    /\ threadPc = [reader |-> "idle", writer |-> "idle"]
    /\ written = <<>>
    /\ received = <<>>

(* ------------------------------ actions ------------------------------- *)
Init ==
    /\ currentTime = 0
    /\ variableSetIndex = 0
    /\ objects = <<>>
    /\ changedObjects = {}
    /\ obj = <<>>
    /\ pc = "idle"
    /\ startTime = 0
    /\ stopTime = 0
    /\ stepCount = 0
    /\ stepI = 0
    /\ passI = 0
    /\ anyCollisions = FALSE
    /\ collideObjectsList = <<>>
    /\ overallHashTable = <<>>
    /\ resolveI = 0
    /\ queryCell = 0
    /\ supportLog = {}
    /\ adjustLog = <<>>
    /\ constraintLog = <<>>
    /\ StreamPipeCtor

(* PhysicsObject::make *)
Make(in, garbage) ==
    /\ pc = "idle"
    /\ Len(obj) < MaxBodies
    /\ LET h == Len(obj) + 1
           properties == PhysicsProperties(in.bounceFactor, in.slideFactor)
           made == [position |-> in.position, velocity |-> in.velocity, affectedByGravity |-> in.affectedByGravity, isStatic |-> in.isStatic, extents |-> in.extents, properties |-> properties]
       IN  /\ obj' = Append(obj, PhysicsObjectCtor(made, garbage))
           /\ objects' \in Perms(Append(objects, h))
           /\ changedObjects' = changedObjects \cup {h}
    /\ UNCHANGED <<pipeVars, worldVars, pc, callVars, passVars, logVars>>

(* PhysicsObject::destroy *)
Destroy(h) ==
    /\ pc = "idle"
    /\ ~obj[h].destroyed
    /\ obj' = [obj EXCEPT ![h].destroyed = TRUE]
    /\ UNCHANGED <<pipeVars, worldVars, objects, changedObjects, pc, callVars, passVars, logVars>>

(* PhysicsObject::setConstraints *)
SetConstraints(h, constraints) ==
    /\ pc = "idle"
    /\ obj[h].constraints # constraints
    /\ obj' = [obj EXCEPT ![h].constraints = constraints]
    /\ UNCHANGED <<pipeVars, worldVars, objects, changedObjects, pc, callVars, passVars, logVars>>

(* mutant: floor + 1 instead of ceil *)
StepCount_FloorPlusOne(stop) == (stop - currentTime) \div stepDuration + 1

(* size_t stepCount = (size_t)ceil((stopTime - currentTime) / stepDuration - timeEPS); *)
(* timeEPS of a step is stepDuration \div TimeEpsInv ticks                             *)
StepCount(stop) == Ceil((stop - currentTime) - stepDuration \div TimeEpsInv, stepDuration)

(* PhysicsWorld::runToTime, entry; stepTime(delta) is runToTime(delta + getCurrentTime()) *)
RunToTime(stop) ==
    /\ pc = "idle"
    /\ startTime' = currentTime
    /\ stopTime' = stop
    /\ stepCount' = StepCount(stop)
    /\ stepI' = 1
    /\ pc' = "step"
    /\ UNCHANGED <<pipeVars, worldVars, objects, changedObjects, obj, passI, anyCollisions, passVars, logVars>>

stepTime(deltaTime) == RunToTime(deltaTime + currentTime)

(* mutant: the last step is not truncated *)
StepTimeOf_NoTruncation(i) == currentTime + stepDuration

(* the time at which step i of the call runs *)
StepTimeOf(i) == IF i >= stepCount THEN stopTime ELSE currentTime + stepDuration

(* for(size_t i = 1; i <= stepCount; i++): loop test and head of the body *)
BeginStep ==
    /\ pc = "step"
    /\ stepI <= stepCount
    /\ currentTime' = StepTimeOf(stepI)
    /\ anyCollisions' = TRUE
    /\ passI' = 0
    /\ pc' = "pass"
    /\ UNCHANGED <<pipeVars, variableSetIndex, objects, changedObjects, obj, startTime, stopTime, stepCount, stepI, passVars, logVars>>

(* the outer loop is over: runToTime returns *)
Return ==
    /\ pc = "step"
    /\ stepI > stepCount
    /\ pc' = "idle"
    /\ stepI' = 0
    /\ stepCount' = 0
    /\ startTime' = 0
    /\ stopTime' = 0
    /\ UNCHANGED <<pipeVars, worldVars, objects, changedObjects, obj, passI, anyCollisions, passVars, logVars>>

(* mutant: the pass loop has no cap *)
PassLoopTest_NoCap == anyCollisions

(* mutant: the loop runs to the cap whether or not a pair collided *)
PassLoopTest_IgnoreCollisions == passI < MaxPasses

(* for(size_t i = 0; i < 10 && anyCollisions; i++): the loop test *)
PassLoopTest == passI < MaxPasses /\ anyCollisions

(* the inner loop is over: next fixed step *)
EndStep ==
    /\ pc = "pass"
    /\ ~PassLoopTest
    /\ stepI' = stepI + 1
    /\ passI' = 0
    /\ anyCollisions' = FALSE
    /\ supportLog' = {}
    /\ adjustLog' = <<>>
    /\ constraintLog' = <<>>
    /\ pc' = "step"
    /\ UNCHANGED <<pipeVars, worldVars, objects, changedObjects, obj, startTime, stopTime, stepCount, passVars>>

(* ------------------------- the relaxation pass ------------------------ *)
(* the sort key of line 341 *)
BottomHeight(o) == getPosition(o).y - getExtents(o).y

(* the results std::sort may give: ascending keys, ties in any order *)
SortedOrders(os, order) == {p \in Perms(order) : \A i, j \in 1..Len(p) : i < j => ~(BottomHeight(os[p[j]]) < BottomHeight(os[p[i]]))}

(* mutant: line 356 is left out, the flag of the pass before stays *)
Rebase_KeepSupported(a) ==
    LET old == getOldVariableSetIndex
    IN  [a EXCEPT !.position[old] = getPosition(a),
                  !.velocity[old] = getVelocity(a),
                  !.objectTime[old] = currentTime]

(* lines 353-356: the old slot is moved to currentTime *)
Rebase(a) ==
    LET old == getOldVariableSetIndex
    IN  [a EXCEPT !.position[old] = getPosition(a),
                  !.velocity[old] = getVelocity(a),
                  !.objectTime[old] = currentTime,
                  !.supported = FALSE]

(* the handles objectA is tested against: the live ones before it *)
SupportersTested(os, objectsVector, i) == {objectsVector[j] : j \in {k \in 1..(i - 1) : ~isDestroyed(os[objectsVector[k]])}}

(* lines 348-373 *)
RECURSIVE SupportLoop(_, _, _, _)
SupportLoop(os, log, objectsVector, i) ==
    IF i > Len(objectsVector) THEN [os |-> os, log |-> log]
    ELSE LET h == objectsVector[i]
             objectA == os[h]
         IN  IF isDestroyed(objectA) THEN SupportLoop(os, log, objectsVector, i + 1)
             ELSE LET rebased == Rebase(objectA)
                      tested == IF isStatic(objectA) THEN {} ELSE SupportersTested(os, objectsVector, i)
                      supported == isSupported(rebased) \/ isStatic(objectA) \/ \E b \in tested : isSupportedBy(rebased, os[b])
                      entries == {[a |-> h, b |-> b, result |-> isSupportedBy(rebased, os[b])] : b \in tested}
                  IN  SupportLoop([os EXCEPT ![h] = [rebased EXCEPT !.supported = supported]], log \cup entries, objectsVector, i + 1)

(* lines 334-373: loop test, sort by bottom height, support detection *)
SupportPhase ==
    /\ pc = "pass"
    /\ PassLoopTest
    /\ anyCollisions' = FALSE
    /\ \E objectsVector \in SortedOrders(obj, objects) :
         LET r == SupportLoop(obj, {}, objectsVector, 1)
         IN  /\ obj' = r.os
             /\ supportLog' = r.log
    /\ adjustLog' = <<>>
    /\ constraintLog' = <<>>
    /\ pc' = "build"
    /\ UNCHANGED <<pipeVars, worldVars, objects, changedObjects, startTime, stopTime, stepCount, stepI, passI, passVars>>

(* lines 396-405 and 438-447: the grid cells under the footprint *)
CellRange(o) ==
    LET position == getPosition(o)
        extents == getExtents(o)
    IN  [minX |-> ifloor((position.x - extents.x) * xScaleFactor),
         maxX |-> iceil((position.x + extents.x) * xScaleFactor),
         minZ |-> ifloor((position.z - extents.z) * zScaleFactor),
         maxZ |-> iceil((position.z + extents.z) * zScaleFactor)]

(* line 406: (size_t)(maxZ - minZ) * (size_t)(maxX * minX) > 36, the product *)
(* taken modulo 2^64: a negative maxX * minX wraps to a huge value          *)
IsOversized(r) ==
    LET a == r.maxZ - r.minZ
        b == r.maxX * r.minX
    IN  IF b >= 0 THEN a * b > (xScaleFactor + 1) * (zScaleFactor + 1)
        ELSE a * (-b) > 0

(* mutant: destroyed bodies are not erased *)
RECURSIVE BuildLoop_KeepDestroyed(_, _)
BuildLoop_KeepDestroyed(st, i) ==
    IF i > Len(objects) THEN st
    ELSE LET h == objects[i]
             n == setupNewState(obj[h])
             r == CellRange(n)
             node == [object |-> h, minX |-> r.minX, maxX |-> r.maxX, minZ |-> r.minZ, maxZ |-> r.maxZ]
         IN  BuildLoop_KeepDestroyed([objects |-> Append(st.objects, h),
                                      os |-> [st.os EXCEPT ![h] = n],
                                      list |-> IF IsOversized(r) THEN Append(st.list, h) ELSE st.list,
                                      table |-> IF IsOversized(r) THEN st.table ELSE Append(st.table, node)], i + 1)

(* lines 387-431 *)
RECURSIVE BuildLoop(_, _)
BuildLoop(st, i) ==
    IF i > Len(objects) THEN st
    ELSE LET h == objects[i]
             o == obj[h]
         IN  IF isDestroyed(o) THEN BuildLoop(st, i + 1)
             ELSE LET n == setupNewState(o)
                      r == CellRange(n)
                      node == [object |-> h, minX |-> r.minX, maxX |-> r.maxX, minZ |-> r.minZ, maxZ |-> r.maxZ]
                  IN  BuildLoop([objects |-> Append(st.objects, h),
                                 os |-> [st.os EXCEPT ![h] = n],
                                 list |-> IF IsOversized(r) THEN Append(st.list, h) ELSE st.list,
                                 table |-> IF IsOversized(r) THEN st.table ELSE Append(st.table, node)], i + 1)

(* lines 374-431: erase the destroyed, setupNewState, hash or fall back *)
BuildPhase ==
    /\ pc = "build"
    /\ LET st == BuildLoop([objects |-> <<>>, os |-> obj, list |-> <<>>, table |-> <<>>], 1)
       IN  /\ objects' = st.objects
           /\ obj' = st.os
           /\ collideObjectsList' = st.list
           /\ overallHashTable' = st.table
    /\ resolveI' = 1
    /\ queryCell' = 0
    /\ pc' = "resolve"
    /\ UNCHANGED <<pipeVars, worldVars, changedObjects, callVars, logVars>>

(* lines 450-492.  The query walks the cells of objectA's range, x outer  *)
(* and z inner, and in each cell the chain, latest inserted first; a body  *)
(* is appended when first found (perObjectHashTable).  So a hashed body is *)
(* found iff its range meets the query's, at the first common cell, and    *)
(* FoundRank orders the found bodies as the walk appends them.             *)
Meets(node, r) == node.minX <= r.maxX /\ r.minX <= node.maxX /\ node.minZ <= r.maxZ /\ r.minZ <= node.maxZ

Max(a, b) == IF a > b THEN a ELSE b

FoundRank(table, i, r) ==
    LET node == table[i]
        nz == r.maxZ - r.minZ + 1
        cell == (Max(node.minX, r.minX) - r.minX) * nz + (Max(node.minZ, r.minZ) - r.minZ)
    IN  cell * (Len(table) + 1) + (Len(table) - i)

Gather(table, r) ==
    LET found == {i \in 1..Len(table) : Meets(table[i], r)}
        order == CHOOSE p \in [1..Cardinality(found) -> found] :
                     \A j, k \in 1..Cardinality(found) : j < k => FoundRank(table, p[j], r) < FoundRank(table, p[k], r)
    IN  [k \in 1..Cardinality(found) |-> table[order[k]].object]

(* ---- the same walk cell by cell, as lines 410-427 and 450-491 run it --- *)
bigHashPrime == 14713

HashMultiplier == 8191

(* 2^64 modulo bigHashPrime: what the conversion of a negative int to       *)
(* size_t adds before the remainder is taken                                *)
SizeWrap ==
    LET t16 == 65536 % bigHashPrime
        t32 == (t16 * t16) % bigHashPrime
    IN  (t32 * t32) % bigHashPrime

(* (size_t)(xPosition * 8191 + zPosition) % bigHashPrime *)
CellHash(xPosition, zPosition) ==
    LET v == xPosition * HashMultiplier + zPosition
    IN  IF v >= 0 THEN v % bigHashPrime ELSE (SizeWrap + (v % bigHashPrime)) % bigHashPrime

(* the cells of a range in the order of the two for loops: x outer, z inner *)
CellsOf(r) ==
    LET nz == r.maxZ - r.minZ + 1
    IN  [k \in 1..((r.maxX - r.minX + 1) * nz) |-> [x |-> r.minX + (k - 1) \div nz, z |-> r.minZ + ((k - 1) % nz)]]

(* lines 410-427: one HashNode per covered cell of every hashed body, in    *)
(* the order of insertion                                                   *)
RECURSIVE HashNodes(_, _)
HashNodes(table, i) ==
    IF i > Len(table) THEN <<>>
    ELSE LET cells == CellsOf(table[i])
         IN  [k \in 1..Len(cells) |-> [x |-> cells[k].x, z |-> cells[k].z, object |-> table[i].object]] \o HashNodes(table, i + 1)

(* mutant: only the head of the bucket is looked at *)
Chain_HeadOnly(nodes, hash) ==
    LET bucket == SelectSeq(nodes, LAMBDA node : CellHash(node.x, node.z) = hash)
    IN  IF bucket = <<>> THEN <<>> ELSE <<bucket[Len(bucket)]>>

(* overallHashTable.at(hash) followed along hashNext: the nodes of the      *)
(* bucket, the last inserted first                                          *)
Chain(nodes, hash) ==
    LET bucket == SelectSeq(nodes, LAMBDA node : CellHash(node.x, node.z) = hash)
    IN  [j \in 1..Len(bucket) |-> bucket[Len(bucket) + 1 - j]]

(* mutant: perObjectHashTable is not consulted, every node found is pushed *)
RECURSIVE WalkChain_NoDedup(_, _, _, _)
WalkChain_NoDedup(found, chain, cell, j) ==
    IF j > Len(chain) THEN found
    ELSE LET node == chain[j]
         IN  IF node.x = cell.x /\ node.z = cell.z
             THEN WalkChain_NoDedup(Append(found, node.object), chain, cell, j + 1)
             ELSE WalkChain_NoDedup(found, chain, cell, j + 1)

(* lines 457-491: the nodes of the chain that are at the cell, pushed       *)
(* unless perObjectHashTable already holds their object                     *)
RECURSIVE WalkChain(_, _, _, _)
WalkChain(found, chain, cell, j) ==
    IF j > Len(chain) THEN found
    ELSE LET node == chain[j]
         IN  IF node.x = cell.x /\ node.z = cell.z /\ node.object \notin Range(found)
             THEN WalkChain(Append(found, node.object), chain, cell, j + 1)
             ELSE WalkChain(found, chain, cell, j + 1)

(* lines 437-492: collideObjectsList as the narrow phase of objectA sees it *)
Candidates(objectA) == collideObjectsList \o Gather(overallHashTable, CellRange(objectA))

(* lines 503-511 *)
RECURSIVE NarrowLoop(_, _, _, _)
NarrowLoop(st, h, list, i) ==
    IF i > Len(list) THEN st
    ELSE LET b == list[i]
         IN  IF h # b /\ collides(st.a, obj[b])
             THEN NarrowLoop([a |-> adjustPosition(st.a, obj[b]), log |-> Append(st.log, <<h, b>>)], h, list, i + 1)
             ELSE NarrowLoop(st, h, list, i + 1)

(* mutant: what a constraint returns is committed through setNewState and  *)
(* so averaged with the corrections of the pass                            *)
RECURSIVE ConstraintLoop_Averaged(_, _, _, _)
ConstraintLoop_Averaged(st, h, constraints, i) ==
    IF i > Len(constraints) THEN st
    ELSE IF constraints[i] = "null" THEN ConstraintLoop_Averaged(st, h, constraints, i + 1)
    ELSE LET new == getNewVariableSetIndex
             out == ApplyConstraint(constraints[i], [position |-> st.a.position[new], velocity |-> st.a.velocity[new]])
         IN  ConstraintLoop_Averaged([a |-> setNewState(st.a, out.position, out.velocity), log |-> Append(st.log, <<h, i>>)], h, constraints, i + 1)

(* lines 512-519 *)
RECURSIVE ConstraintLoop(_, _, _, _)
ConstraintLoop(st, h, constraints, i) ==
    IF i > Len(constraints) THEN st
    ELSE IF constraints[i] = "null" THEN ConstraintLoop(st, h, constraints, i + 1)
    ELSE LET new == getNewVariableSetIndex
             out == ApplyConstraint(constraints[i], [position |-> st.a.position[new], velocity |-> st.a.velocity[new]])
         IN  ConstraintLoop([a |-> [st.a EXCEPT !.position[new] = out.position, !.velocity[new] = out.velocity], log |-> Append(st.log, <<h, i>>)], h, constraints, i + 1)

ApplyConstraints(objectA, h) ==
    IF objectA.constraints = nullptr THEN [a |-> objectA, log |-> <<>>]
    ELSE ConstraintLoop([a |-> objectA, log |-> <<>>], h, objectA.constraints[1], 1)

(* lines 433-520, one iteration: objectA = objects[resolveI] *)
ResolveObject ==
    /\ pc = "resolve"
    /\ resolveI <= Len(objects)
    /\ LET h == objects[resolveI]
           objectA == obj[h]
       IN  IF isStatic(objectA)
           THEN UNCHANGED <<obj, changedObjects, anyCollisions, adjustLog, constraintLog>>
           ELSE LET n == NarrowLoop([a |-> objectA, log |-> <<>>], h, Candidates(objectA), 1)
                    c == ApplyConstraints(n.a, h)
                IN  /\ obj' = [obj EXCEPT ![h] = c.a]
                    /\ changedObjects' = IF Len(n.log) > 0 THEN changedObjects \cup {h} ELSE changedObjects
                    /\ anyCollisions' = (anyCollisions \/ Len(n.log) > 0)
                    /\ adjustLog' = adjustLog \o n.log
                    /\ constraintLog' = constraintLog \o c.log
    /\ resolveI' = resolveI + 1
    /\ UNCHANGED <<pipeVars, worldVars, objects, pc, startTime, stopTime, stepCount, stepI, passI, collideObjectsList, overallHashTable, queryCell, supportLog>>

(* mutant: the parity flips only after a pass that found a collision *)
swapVariableSetIndex_OnlyOnCollision == IF anyCollisions THEN 1 - variableSetIndex ELSE variableSetIndex

swapVariableSetIndex == IF variableSetIndex # 0 THEN 0 ELSE 1

(* lines 521-532: the nodes go back to the free list, the parity flips *)
EndPass ==
    /\ pc = "resolve"
    /\ resolveI > Len(objects)
    /\ variableSetIndex' = swapVariableSetIndex
    /\ passI' = passI + 1
    /\ collideObjectsList' = <<>>
    /\ overallHashTable' = <<>>
    /\ resolveI' = 0
    /\ queryCell' = 0
    /\ pc' = "pass"
    /\ UNCHANGED <<pipeVars, currentTime, objects, changedObjects, obj, startTime, stopTime, stepCount, stepI, anyCollisions, logVars>>

Next ==
    \/ \E in \in MakeInputs, garbage \in BOOLEAN : Make(in, garbage)
    \/ \E h \in DOMAIN obj : Destroy(h)
    \/ \E h \in DOMAIN obj, constraints \in ConstraintLists \cup {nullptr} : SetConstraints(h, constraints)
    \/ \E deltaTime \in StepDeltas : deltaTime + currentTime <= MaxHalfSteps * (stepDuration \div 2) /\ stepTime(deltaTime)
    \/ BeginStep
    \/ Return
    \/ EndStep
    \/ SupportPhase
    \/ BuildPhase
    \/ ResolveObject
    \/ EndPass

Spec == Init /\ [][Next]_vars

(* the steps runToTime takes by itself once it has been called *)
ControlStep == BeginStep \/ Return \/ EndStep \/ EndPass

PhaseStep == SupportPhase \/ BuildPhase \/ ResolveObject

(* the states in which a step of PhaseStep is enabled: its guards *)
PhaseEnabled == (pc = "pass" /\ PassLoopTest) \/ pc = "build" \/ (pc = "resolve" /\ resolveI <= Len(objects))

(* runToTime is synchronous, single-threaded code: a call that has begun   *)
(* keeps executing, while the caller is free to call or not.  So the steps *)
(* of the call are weakly fair; for PhaseStep weak fairness is written out *)
(* with its guard PhaseEnabled in the place of ENABLED <<PhaseStep>>_vars. *)
FairSpec ==
    /\ Init /\ [][Next]_vars
    /\ WF_vars(ControlStep)
    /\ ([]<>~PhaseEnabled \/ []<><<PhaseStep>>_vars)

(* ------------------- the resting-box scenario ------------------------- *)
(* a static floor box, centre y = -5, extents (5, 0.5, 5), and a           *)
(* gravity-affected box of extents 0.5 at y = 1 with zero velocity         *)
RestFloor == [position |-> PositionF(0, -5000, 0, Overworld), velocity |-> VectorF(0, 0, 0), affectedByGravity |-> FALSE, isStatic |-> TRUE, extents |-> VectorF(5000, 500, 5000), properties |-> PhysicsProperties(DefaultBounce, DefaultSlide)]

RestBox == [position |-> PositionF(0, 1000, 0, Overworld), velocity |-> VectorF(0, 0, 0), affectedByGravity |-> TRUE, isStatic |-> FALSE, extents |-> Box, properties |-> PhysicsProperties(DefaultBounce, DefaultSlide)]

(* stepTime(2) *)
RestDuration == 2 * StepsPerSecond * stepDuration

(* the world after make(floor) and make(box) *)
InitRest ==
    /\ currentTime = 0
    /\ variableSetIndex = 0
    /\ \E g1, g2 \in BOOLEAN : obj = <<PhysicsObjectCtor(RestFloor, g1), PhysicsObjectCtor(RestBox, g2)>>
    /\ objects \in Perms(<<1, 2>>)
    /\ changedObjects = {1, 2}
    /\ pc = "idle"
    /\ startTime = 0
    /\ stopTime = 0
    /\ stepCount = 0
    /\ stepI = 0
    /\ passI = 0
    /\ anyCollisions = FALSE
    /\ collideObjectsList = <<>>
    /\ overallHashTable = <<>>
    /\ resolveI = 0
    /\ queryCell = 0
    /\ supportLog = {}
    /\ adjustLog = <<>>
    /\ constraintLog = <<>>
    /\ StreamPipeCtor

NextRest ==
    \/ currentTime = 0 /\ stepTime(RestDuration)
    \/ BeginStep
    \/ Return
    \/ EndStep
    \/ SupportPhase
    \/ BuildPhase
    \/ ResolveObject
    \/ EndPass

SpecRest == InitRest /\ [][NextRest]_vars

(* --------------- adjustPosition and isSupportedBy alone --------------- *)
(* Body 1 is what a pass left of a dynamic box: its old slot holds the     *)
(* resolved state at one of UnitPositions, its new slot the stale state of *)
(* the pass before, the counter the corrections of that pass.  Bodies 2..5 *)
(* are a dynamic box at the origin, a static box, a moving box and a box   *)
(* of the other dimension.                                                 *)
UnitXs == {-300, 0, 300, 1001, 1002}

UnitYs == {-300, 0, 300, 1000, 1007, 1008, 1500}

UnitZs == {0, 300}

UnitPositions == {PositionF(x, y, z, Overworld) : x \in UnitXs, y \in UnitYs, z \in UnitZs}

UnitSubject(position) == [position |-> position, velocity |-> VectorF(-30, -20, 10), affectedByGravity |-> TRUE, isStatic |-> FALSE, extents |-> Box, properties |-> PhysicsProperties(DefaultBounce, DefaultSlide)]

UnitOthers ==
    << [position |-> PositionF(0, 0, 0, Overworld), velocity |-> VectorF(0, 0, 0), affectedByGravity |-> TRUE, isStatic |-> FALSE, extents |-> Box, properties |-> PhysicsProperties(DefaultBounce, DefaultSlide)],
       [position |-> PositionF(400, -200, 100, Overworld), velocity |-> VectorF(0, 0, 0), affectedByGravity |-> FALSE, isStatic |-> TRUE, extents |-> Box, properties |-> PhysicsProperties(DefaultBounce, DefaultSlide)],
       [position |-> PositionF(-200, 300, 0, Overworld), velocity |-> VectorF(30, 0, 0), affectedByGravity |-> FALSE, isStatic |-> FALSE, extents |-> Box, properties |-> PhysicsProperties(DefaultBounce, DefaultSlide)],
       [position |-> PositionF(0, 0, 0, Last), velocity |-> VectorF(0, 0, 0), affectedByGravity |-> TRUE, isStatic |-> FALSE, extents |-> Box, properties |-> PhysicsProperties(DefaultBounce, DefaultSlide)] >>

(* the new slot and the counter as a finished pass leaves them *)
Stale(o) ==
    LET new == getNewVariableSetIndex
    IN  [o EXCEPT !.position[new] = PAddV(o.position[new], VectorF(50, 50, 50)),
                  !.velocity[new] = VectorF(0, 0, 0),
                  !.newStateCount = 1,
                  !.latestUpdateTag = 1]

InitUnit ==
    /\ currentTime = 0
    /\ variableSetIndex \in {0, 1}
    /\ \E position \in UnitPositions, garbage \in [1..(Len(UnitOthers) + 1) -> BOOLEAN] :
          obj = <<Stale(PhysicsObjectCtor(UnitSubject(position), garbage[1]))>>
                \o [i \in 1..Len(UnitOthers) |-> PhysicsObjectCtor(UnitOthers[i], garbage[i + 1])]
    /\ objects = [i \in 1..(Len(UnitOthers) + 1) |-> i]
    /\ changedObjects = 1..(Len(UnitOthers) + 1)
    /\ pc = "unit"
    /\ startTime = 0
    /\ stopTime = 0
    /\ stepCount = 0
    /\ stepI = 0
    /\ passI = 0
    /\ anyCollisions = FALSE
    /\ collideObjectsList = <<>>
    /\ overallHashTable = <<>>
    /\ resolveI = 0
    /\ queryCell = 0
    /\ supportLog = {}
    /\ adjustLog = <<>>
    /\ constraintLog = <<>>
    /\ StreamPipeCtor

(* isSupportedBy(1, b) for every other body b *)
UnitSupport ==
    /\ pc = "unit"
    /\ supportLog = {}
    /\ supportLog' = {[a |-> 1, b |-> b, result |-> isSupportedBy(obj[1], obj[b])] : b \in 2..Len(obj)}
    /\ UNCHANGED <<pipeVars, worldVars, objects, changedObjects, obj, pc, callVars, passVars, adjustLog, constraintLog>>

(* setupNewState of every body, as the broad-phase build does *)
UnitSetup ==
    /\ pc = "unit"
    /\ obj' = [h \in DOMAIN obj |-> setupNewState(obj[h])]
    /\ pc' = "adjust"
    /\ UNCHANGED <<pipeVars, worldVars, objects, changedObjects, callVars, passVars, logVars>>

(* adjustPosition(1, b) for a body b that body 1 collides with, each b once *)
UnitAdjust(b) ==
    /\ pc = "adjust"
    /\ <<1, b>> \notin Range(adjustLog)
    /\ collides(obj[1], obj[b])
    /\ obj' = [obj EXCEPT ![1] = adjustPosition(obj[1], obj[b])]
    /\ changedObjects' = changedObjects \cup {1}
    /\ adjustLog' = Append(adjustLog, <<1, b>>)
    /\ UNCHANGED <<pipeVars, worldVars, objects, pc, callVars, passVars, supportLog, constraintLog>>

(* adjustPosition(a, 1) for another body a, static or not, that collides   *)
(* with body 1: one call, on the bodies as setupNewState left them         *)
UnitAdjustOther(a) ==
    /\ pc = "adjust"
    /\ adjustLog = <<>>
    /\ collides(obj[a], obj[1])
    /\ obj' = [obj EXCEPT ![a] = adjustPosition(obj[a], obj[1])]
    /\ changedObjects' = IF isStatic(obj[a]) THEN changedObjects ELSE changedObjects \cup {a}
    /\ adjustLog' = <<<<a, 1>>>>
    /\ pc' = "adjusted"
    /\ UNCHANGED <<pipeVars, worldVars, objects, callVars, passVars, supportLog, constraintLog>>

(* swapVariableSetIndex, as at the end of a pass: the corrected state is   *)
(* the one the reads return                                                *)
UnitFlip ==
    /\ pc = "adjust"
    /\ variableSetIndex' = swapVariableSetIndex
    /\ pc' = "flipped"
    /\ UNCHANGED <<pipeVars, currentTime, objects, changedObjects, obj, callVars, passVars, logVars>>

NextUnit ==
    \/ UnitSupport
    \/ UnitSetup
    \/ \E b \in 2..Len(obj) : UnitAdjust(b)
    \/ \E a \in 2..Len(obj) : UnitAdjustOther(a)
    \/ UnitFlip

SpecUnit == InitUnit /\ [][NextUnit]_vars

(* -------------------- the broad phase cell by cell -------------------- *)
(* The first pass of a step of a world at rest, with the query walk of     *)
(* lines 450-491 taken one grid cell at a time.  Body 1 is a box at one of *)
(* HashPositions, body 2 a box at (0.5, -4.499, 0), body 3 a thin body     *)
(* inside the cells of body 2, body 4 the floor, which the others touch.   *)
HashXs == {-500, 500, 700, 1500}

HashZs == {0, 500, 1200}

HashPositions == {PositionF(x, -4499, z, Overworld) : x \in HashXs, z \in HashZs}

HashBodies(position) ==
    << [position |-> position, velocity |-> VectorF(0, 0, 0), affectedByGravity |-> FALSE, isStatic |-> FALSE, extents |-> Box, properties |-> PhysicsProperties(DefaultBounce, DefaultSlide)],
       [position |-> PositionF(500, -4499, 0, Overworld), velocity |-> VectorF(0, 0, 0), affectedByGravity |-> FALSE, isStatic |-> FALSE, extents |-> Box, properties |-> PhysicsProperties(DefaultBounce, DefaultSlide)],
       [position |-> PositionF(300, -4499, 300, Overworld), velocity |-> VectorF(0, 0, 0), affectedByGravity |-> FALSE, isStatic |-> FALSE, extents |-> VectorF(100, 500, 100), properties |-> PhysicsProperties(DefaultBounce, DefaultSlide)],
       [position |-> PositionF(0, -5500, 0, Overworld), velocity |-> VectorF(0, 0, 0), affectedByGravity |-> FALSE, isStatic |-> TRUE, extents |-> VectorF(5000, 500, 5000), properties |-> PhysicsProperties(DefaultBounce, DefaultSlide)] >>

(* the bodies are made, runToTime(stepDuration) has been entered *)
InitHash ==
    /\ currentTime = 0
    /\ variableSetIndex = 0
    /\ \E position \in HashPositions, garbage \in [1..4 -> BOOLEAN] :
          obj = [i \in 1..4 |-> PhysicsObjectCtor(HashBodies(position)[i], garbage[i])]
    /\ objects \in Perms(<<1, 2, 3, 4>>)
    /\ changedObjects = 1..4
    /\ pc = "step"
    /\ startTime = 0
    /\ stopTime = stepDuration
    /\ stepCount = 1
    /\ stepI = 1
    /\ passI = 0
    /\ anyCollisions = FALSE
    /\ collideObjectsList = <<>>
    /\ overallHashTable = <<>>
    /\ resolveI = 0
    /\ queryCell = 0
    /\ supportLog = {}
    /\ adjustLog = <<>>
    /\ constraintLog = <<>>
    /\ StreamPipeCtor

(* line 432: the size of collideObjectsList after the build; every live    *)
(* body was either pushed to the list or hashed                            *)
startCollideObjectsListSize == Len(objects) - Len(overallHashTable)

(* lines 433-449: the next objectA; a static one is skipped, for another   *)
(* the list is cut back to the fallback bodies and the walk begins         *)
QueryStart ==
    /\ pc = "resolve"
    /\ resolveI <= Len(objects)
    /\ IF isStatic(obj[objects[resolveI]])
       THEN /\ resolveI' = resolveI + 1
            /\ UNCHANGED <<pc, collideObjectsList, queryCell>>
       ELSE /\ collideObjectsList' = SubSeq(collideObjectsList, 1, startCollideObjectsListSize)
            /\ queryCell' = 1
            /\ pc' = "query"
            /\ UNCHANGED resolveI
    /\ UNCHANGED <<pipeVars, worldVars, objects, changedObjects, obj, callVars, overallHashTable, logVars>>

(* lines 450-491, one cell: the chain of its bucket is followed *)
QueryCell ==
    /\ pc = "query"
    /\ LET cells == CellsOf(CellRange(obj[objects[resolveI]]))
       IN  /\ queryCell <= Len(cells)
           /\ LET cell == cells[queryCell]
                  chain == Chain(HashNodes(overallHashTable, 1), CellHash(cell.x, cell.z))
                  found == SubSeq(collideObjectsList, startCollideObjectsListSize + 1, Len(collideObjectsList))
              IN  collideObjectsList' = SubSeq(collideObjectsList, 1, startCollideObjectsListSize) \o WalkChain(found, chain, cell, 1)
    /\ queryCell' = queryCell + 1
    /\ UNCHANGED <<pipeVars, worldVars, objects, changedObjects, obj, pc, callVars, overallHashTable, resolveI, logVars>>

(* lines 492-519: the walk is over, narrow phase and constraints of objectA *)
QueryEnd ==
    /\ pc = "query"
    /\ queryCell > Len(CellsOf(CellRange(obj[objects[resolveI]])))
    /\ LET h == objects[resolveI]
           n == NarrowLoop([a |-> obj[h], log |-> <<>>], h, collideObjectsList, 1)
           c == ApplyConstraints(n.a, h)
       IN  /\ obj' = [obj EXCEPT ![h] = c.a]
           /\ changedObjects' = IF Len(n.log) > 0 THEN changedObjects \cup {h} ELSE changedObjects
           /\ anyCollisions' = (anyCollisions \/ Len(n.log) > 0)
           /\ adjustLog' = adjustLog \o n.log
           /\ constraintLog' = constraintLog \o c.log
    /\ resolveI' = resolveI + 1
    /\ queryCell' = 0
    /\ pc' = "resolve"
    /\ UNCHANGED <<pipeVars, worldVars, objects, startTime, stopTime, stepCount, stepI, passI, collideObjectsList, overallHashTable, supportLog>>

NextHash ==
    \/ BeginStep
    \/ (passI = 0 /\ SupportPhase)
    \/ BuildPhase
    \/ QueryStart
    \/ QueryCell
    \/ QueryEnd
    \/ EndPass

SpecHash == InitHash /\ [][NextHash]_vars

(* ============================== claims =============================== *)
Live == Range(objects)

PassDone == pc = "resolve" /\ resolveI > Len(objects)

(* C1: getProperties() of every body returns the properties value that     *)
(* was passed to PhysicsObject::make (already clamped to [0,1]).           *)
C1_PropertiesKept == \A h \in DOMAIN obj : getProperties(obj[h]) = obj[h].made.properties

(* C2: in every observable state (the world idle) every body that is not   *)
(* destroyed and is static is supported.                                   *)
C2_StaticSupported == pc = "idle" => \A h \in DOMAIN obj : (~isDestroyed(obj[h]) /\ isStatic(obj[h])) => isSupported(obj[h])

(* C3: whenever the world is idle, getPosition() of every static body is   *)
(* the position it was made with, whatever its velocity and gravity flag.  *)
C3_StaticPositionFixed == pc = "idle" => \A h \in DOMAIN obj : isStatic(obj[h]) => getPosition(obj[h]) = obj[h].made.position

AboutToReturn == pc = "step" /\ stepI > stepCount

(* C4 as stated: when runToTime(stopTime) returns from a call made with    *)
(* stopTime > getCurrentTime(), however small the difference,              *)
(* getCurrentTime() = stopTime.                                            *)
C4_LandsOnStopTime == (AboutToReturn /\ stopTime > startTime) => currentTime = stopTime

(* C4 as amended: when runToTime(stopTime) returns, getCurrentTime() =     *)
(* stopTime if (stopTime - startTime) / stepDuration exceeds timeEPS, and  *)
(* otherwise no step was run and the time is the one at entry.             *)
C4_LandsOnStopTimeAmended == AboutToReturn => currentTime = (IF (stopTime - startTime) * TimeEpsInv > stepDuration THEN stopTime ELSE startTime)

C4_Witness == AboutToReturn /\ stopTime = startTime + stepDuration + stepDuration \div 2 /\ currentTime = stopTime

(* the constraints of handle h that a pass has to apply, in list order *)
ExpectedApplications(h) ==
    IF obj[h].constraints = nullptr THEN <<>>
    ELSE LET list == obj[h].constraints[1]
             IsCall(e) == e[1] = h /\ list[e[2]] # "null"
         IN  SelectSeq([i \in 1..Len(list) |-> <<h, i>>], IsCall)

ApplicationsTo(h) == LET Mine(e) == e[1] = h IN SelectSeq(constraintLog, Mine)

(* C5: at the end of every relaxation pass, every live body with a         *)
(* constraint list, static or not, has had each non-null constraint of the *)
(* list applied exactly once, in list order.                               *)
C5_ConstraintsApplied == PassDone => \A h \in Live : ApplicationsTo(h) = ExpectedApplications(h)

ObserveAll == [h \in DOMAIN obj |-> Observe(obj[h])]

ZeroCall == \/ pc = "idle" /\ pc' = "step" /\ stopTime' = startTime'
            \/ pc = "step" /\ stopTime = startTime

(* C6: stepTime(0) runs no pass and returns at once: neither the call nor  *)
(* the return changes any body's getPosition(), getVelocity() or           *)
(* isSupported(), overlapping bodies included.                             *)
C6_ZeroStepChangesNothing == [][ZeroCall => (ObserveAll' = ObserveAll /\ (pc = "step" => pc' = "idle"))]_vars

Overlapping == \E a, b \in Live : a # b /\ ~isStatic(obj[a]) /\ collides(obj[a], obj[b])

C6_Witness == pc = "step" /\ stopTime = startTime /\ stepCount = 0 /\ Overlapping

NoStepTaken == pc \in {"idle", "step"} /\ pc' \in {"idle", "step"}

FreshlyMade(o) ==
    /\ \A i \in {0, 1} : o.position[i] = o.made.position /\ o.velocity[i] = o.made.velocity /\ o.objectTime[i] = currentTime
    /\ getPosition(o) = o.made.position
    /\ getVelocity(o) = o.made.velocity

(* C7: a body made at any world time and parity has both slots equal to    *)
(* its construction state and both slot times equal to the current time,   *)
(* and until a fixed step is taken getPosition() and getVelocity() keep    *)
(* returning what they returned.                                           *)
C7_ReadBack ==
    [][NoStepTaken => \A h \in DOMAIN obj' :
          IF h \in DOMAIN obj
          THEN getPosition(obj[h])' = getPosition(obj[h]) /\ getVelocity(obj[h])' = getVelocity(obj[h])
          ELSE FreshlyMade(obj[h])']_vars

C7_Witness ==
    /\ pc = "idle" /\ currentTime > 0 /\ variableSetIndex = 1
    /\ \E h \in DOMAIN obj : obj[h].made.velocity.x # 0 /\ FreshlyMade(obj[h])

DifferentDimension(a, b) == getPosition(obj[a]).d # getPosition(obj[b]).d

(* C8: two bodies whose positions carry different dimension tags never     *)
(* interact: collides is false for them, isSupportedBy is false for a      *)
(* non-static A, and during a pass no adjustPosition(A,B) call and no      *)
(* support of A by B is made for such a pair.                              *)
C8_DimensionIsolation ==
    /\ \A a, b \in DOMAIN obj : (a # b /\ DifferentDimension(a, b)) =>
          /\ ~collides(obj[a], obj[b])
          /\ ~isStatic(obj[a]) => ~isSupportedBy(obj[a], obj[b])
    /\ pc \in {"build", "resolve"} =>
          /\ \A e \in Range(adjustLog) : ~DifferentDimension(e[1], e[2])
          /\ \A e \in supportLog : e.result => ~DifferentDimension(e.a, e.b)

C8_Witness == PassDone /\ \E a, b \in Live : a # b /\ ~isStatic(obj[a]) /\ ~isStatic(obj[b]) /\ DifferentDimension(a, b) /\ collides_NoDimension(obj[a], obj[b])

Destroyed == {h \in DOMAIN obj : isDestroyed(obj[h])}

InvolvedInPass == Range(collideObjectsList) \cup {overallHashTable[i].object : i \in DOMAIN overallHashTable} \cup {e.a : e \in supportLog} \cup {e.b : e \in supportLog} \cup {e[1] : e \in Range(adjustLog)} \cup {e[2] : e \in Range(adjustLog)} \cup {e[1] : e \in Range(constraintLog)}

(* C9: a destroyed body leaves the live set only in the broad-phase build  *)
(* of a pass, every build leaves no destroyed body behind, and a destroyed *)
(* body is in no support test, candidate list, hash node, adjustPosition   *)
(* call or constraint application of any pass.                             *)
C9_DestroyedLeavesAtBuild ==
    /\ [](pc = "resolve" => Live \cap Destroyed = {})
    /\ [](InvolvedInPass \cap Destroyed = {})
    /\ [][\A h \in Live : h \notin Range(objects') => (pc = "build" /\ isDestroyed(obj[h]))]_vars

C9_Witness == PassDone /\ adjustLog = <<>> /\ \E h \in Destroyed, b \in Live : h \notin Live /\ ~isStatic(obj[b]) /\ collides(obj[b], obj[h])

(* C10: the parity bit is 0 or 1 and the old and new index differ; the bit *)
(* flips exactly when a relaxation pass ends (the pass counter advances),  *)
(* and every pass ends that way, with or without collisions.               *)
C10_ParityFlipsEveryPass ==
    /\ [](variableSetIndex \in {0, 1} /\ {getOldVariableSetIndex, getNewVariableSetIndex} = {0, 1})
    /\ [][(passI' = passI + 1) <=> (variableSetIndex' = 1 - variableSetIndex)]_vars
    /\ [][(pc = "resolve" /\ pc' # "resolve") => (pc' = "pass" /\ passI' = passI + 1)]_vars

C10_Witness == pc = "pass" /\ passI = 1 /\ ~anyCollisions /\ adjustLog = <<>> /\ Live # {} /\ variableSetIndex = 1

OldSlot(o) == <<o.position[getOldVariableSetIndex], o.velocity[getOldVariableSetIndex], o.objectTime[getOldVariableSetIndex]>>

NewSlot(o) == <<o.position[getNewVariableSetIndex], o.velocity[getNewVariableSetIndex], o.objectTime[getNewVariableSetIndex]>>

OldSlots == [h \in DOMAIN obj |-> OldSlot(obj[h])]

InPass == pc \in {"pass", "build", "resolve"}

(* C11 as stated: during a relaxation pass, between two parity flips, no   *)
(* body's old-slot position, velocity or timestamp is modified.            *)
C11_OldSlotNeverWritten == [][(InPass /\ variableSetIndex' = variableSetIndex) => OldSlots' = OldSlots]_vars

(* C11 as amended: the support phase that opens a pass overwrites the old  *)
(* slot of every live, not destroyed body with getPosition(),              *)
(* getVelocity() and the current time and leaves the other bodies alone;   *)
(* from then to the parity flip no old slot is modified.                   *)
C11_OldSlotOnlyRebased ==
    [][/\ (pc \in {"build", "resolve"} /\ variableSetIndex' = variableSetIndex) => OldSlots' = OldSlots
       /\ (pc = "pass" /\ pc' = "build") => \A h \in DOMAIN obj :
              OldSlot(obj[h])' = IF h \in Live /\ ~isDestroyed(obj[h])
                                 THEN <<getPosition(obj[h]), getVelocity(obj[h]), currentTime>>
                                 ELSE OldSlot(obj[h])]_vars

C11_Witness == PassDone /\ currentTime > 0 /\ \E h \in Live : obj[h].newStateCount > 0 /\ obj[h].objectTime[getOldVariableSetIndex] = currentTime /\ NewSlot(obj[h]) # OldSlot(obj[h])

Reads == [h \in DOMAIN obj |-> [position |-> getPosition(obj[h]), velocity |-> getVelocity(obj[h]), collides |-> [b \in DOMAIN obj |-> collides(obj[h], obj[b])]]]

(* C12: from the broad-phase build of a pass to its parity flip, whatever  *)
(* setupNewState, setNewState and the constraints write, getPosition(),    *)
(* getVelocity() and collides() return the same values for every body.     *)
C12_ReadsUseOldSlot == [][(pc \in {"build", "resolve"} /\ variableSetIndex' = variableSetIndex) => Reads' = Reads]_vars

C12_Witness == PassDone /\ adjustLog # <<>> /\ \E h \in Live : constraintLog # <<>> /\ <<h, 1>> \in Range(constraintLog) /\ obj[h].position[getNewVariableSetIndex] # getPosition(obj[h])

(* C13: runToTime terminates: the step index never passes stepCount + 1,   *)
(* no step runs more than MaxPasses passes, and every call that has begun  *)
(* returns (the world becomes idle again).                                 *)
C13_RunToTimeTerminates ==
    /\ [](passI <= MaxPasses /\ stepI <= stepCount + 1)
    /\ (pc # "idle") ~> (pc = "idle")

C13_Witness == pc = "pass" /\ passI = MaxPasses /\ anyCollisions /\ stepI < stepCount

(* the contact normal adjustPosition(a, b) uses: lines 544-576 *)
ContactNormal(a, b) ==
    Normal(SeparatingAxis(SurfaceOffset(VAdd(getExtents(obj[a]), getExtents(obj[b])), VSub(getPosition(obj[a]), getPosition(obj[b])))),
           Nudged(VSub(getPosition(obj[a]), getPosition(obj[b]))))

(* pre-collision relative velocity of a and b along the normal of a *)
RelativeNormalVelocity(a, b) == dot(VSub(getVelocity(obj[a]), getVelocity(obj[b])), ContactNormal(a, b))

(* the same for the corrected velocities in the new slot *)
NewRelativeNormalVelocity(a, b) == dot(VSub(obj[a].velocity[getNewVariableSetIndex], obj[b].velocity[getNewVariableSetIndex]), ContactNormal(a, b))

(* a and b are dynamic, unsupported, unconstrained, of bounceFactor        *)
(* sqrt(0.5), they approach along the contact normal with no tangential    *)
(* relative velocity, and the pass has corrected each once against the     *)
(* other and against nothing else                                          *)
HeadOnResolved(a, b) ==
    /\ PassDone
    /\ a # b
    /\ \A h \in {a, b} : /\ ~isStatic(obj[h]) /\ ~isSupported(obj[h])
                         /\ getProperties(obj[h]).bounceFactor = DefaultBounce
                         /\ obj[h].constraints = nullptr
    /\ Range(adjustLog) = {<<a, b>>, <<b, a>>} /\ Len(adjustLog) = 2
    /\ RelativeNormalVelocity(a, b) < 0
    /\ LET dv == VSub(getVelocity(obj[a]), getVelocity(obj[b]))
           n == ContactNormal(a, b)
       IN  \A axis \in {"x", "y", "z"} : n[axis] = 0 => dv[axis] = 0

(* the tolerance on a velocity: distanceEPS per fixed step, which covers   *)
(* the two truncated quotients of the corrections                          *)
VelocityTolerance == distanceEPS

(* C14: after the pass that resolved a head-on collision of two dynamic,   *)
(* unsupported bodies of bounceFactor sqrt(0.5), the relative velocity of  *)
(* the new slots along the contact normal is -bounceA * bounceB times the  *)
(* pre-collision one, within VelocityTolerance.                            *)
C14_Restitution ==
    \A a, b \in Live : HeadOnResolved(a, b) =>
        Abs(NewRelativeNormalVelocity(a, b) * One * One
            + getProperties(obj[a]).bounceFactor * getProperties(obj[b]).bounceFactor * RelativeNormalVelocity(a, b))
          <= VelocityTolerance * One * One

C14_Witness == \E a, b \in Live : HeadOnResolved(a, b) /\ RelativeNormalVelocity(a, b) = -30 /\ ContactNormal(a, b).x # 0

(* stepTime(2) of the resting-box scenario is about to return *)
RestReturns == AboutToReturn /\ stopTime = RestDuration /\ currentTime = RestDuration

(* the box does not penetrate the floor: y >= -5 + 0.5 + 0.5 - tolerance *)
RestNoPenetration == getPosition(obj[2]).y >= (-5000) + 500 + 500 - distanceEPS

(* C15 as stated: after stepTime(2) the box is not below the floor's top   *)
(* and isSupported() is true.                                              *)
C15_RestsSupported == RestReturns => (RestNoPenetration /\ isSupported(obj[2]))

(* C15 as amended: after stepTime(2) the box is not below the floor's top, *)
(* but it is in the air, falling back from its first rebound, and          *)
(* isSupported() is false.                                                 *)
C15_ReboundsUnsupported == RestReturns => (RestNoPenetration /\ ~isSupported(obj[2]) /\ getPosition(obj[2]).y > (-5000) + 500 + 500 + 500 /\ getVelocity(obj[2]).y < 0)

C15_Witness == RestReturns /\ stepI = 2 * StepsPerSecond + 1 /\ isSupported(obj[1]) /\ ~isSupported(obj[2]) /\ obj[2].latestUpdateTag > 0

(* surfaceOffset of adjustPosition(a, b): line 547 *)
SurfaceOffsetOf(a, b) == SurfaceOffset(VAdd(getExtents(obj[a]), getExtents(obj[b])), VSub(getPosition(obj[a]), getPosition(obj[b])))

(* the axes along which the new position of h differs from the old one *)
MovedAxes(h) == {axis \in {"x", "y", "z"} : obj[h].position[getNewVariableSetIndex][axis] # obj[h].position[getOldVariableSetIndex][axis]}

(* the minimum surfaceOffset, ties going to X, then Y, then Z *)
AxisXYZ(so) == IF so.x <= so.y /\ so.x <= so.z THEN "x" ELSE IF so.y <= so.z THEN "y" ELSE "z"

(* the minimum surfaceOffset, ties going to Z, then Y, then X *)
AxisZYX(so) == IF so.z <= so.x /\ so.z <= so.y THEN "z" ELSE IF so.y <= so.x THEN "y" ELSE "x"

OnlyAdjusted(a, b) == pc = "adjust" /\ adjustLog = <<<<a, b>>>>

(* C16 as stated: a single adjustPosition(a, b) moves a along the axis of  *)
(* minimum surfaceOffset, and among tied minima along X before Y before Z. *)
C16_TiesXYZ == \A b \in DOMAIN obj : OnlyAdjusted(1, b) => MovedAxes(1) = {AxisXYZ(SurfaceOffsetOf(1, b))}

(* C16 as amended: a single adjustPosition(a, b) moves a along the axis of *)
(* minimum surfaceOffset, and among tied minima along Z before Y before X: *)
(* X only when it is strictly smaller than both others.                    *)
C16_TiesZYX == \A b \in DOMAIN obj : OnlyAdjusted(1, b) => MovedAxes(1) = {AxisZYX(SurfaceOffsetOf(1, b))}

C16_Witness == OnlyAdjusted(1, 2) /\ SurfaceOffsetOf(1, 2).x = SurfaceOffsetOf(1, 2).y /\ SurfaceOffsetOf(1, 2).x < SurfaceOffsetOf(1, 2).z /\ MovedAxes(1) = {"y"}

(* the number of grid cells under the footprint of o, as the insertion     *)
(* loops of lines 410-412 count them                                       *)
CoveredCells(o) == LET r == CellRange(o) IN (r.maxX - r.minX + 1) * (r.maxZ - r.minZ + 1)

CellBound == (xScaleFactor + 1) * (zScaleFactor + 1)

Hashed(h) == \E i \in DOMAIN overallHashTable : overallHashTable[i].object = h

(* C17: once the hash is built, a live body covering more than             *)
(* (xScaleFactor + 1) * (zScaleFactor + 1) cells is in collideObjectsList  *)
(* and not hashed, a body within the bound is hashed, and so no body is in *)
(* more buckets than the bound.                                            *)
C17_FallbackIffOversize ==
    pc = "resolve" =>
        \A h \in Range(objects) :
            /\ CoveredCells(obj[h]) > CellBound => (h \in Range(collideObjectsList) /\ ~Hashed(h))
            /\ CoveredCells(obj[h]) <= CellBound => Hashed(h)
            /\ Hashed(h) => CoveredCells(obj[h]) <= CellBound

(* the height of the bottom surface of a above the top surface of b *)
BottomAboveTop(a, b) == (getPosition(obj[a]).y - getExtents(obj[a]).y) - (getPosition(obj[b]).y + getExtents(obj[b]).y)

ExtentsSumY(a, b) == getExtents(obj[a]).y + getExtents(obj[b]).y

(* the XZ footprints overlap within distanceEPS *)
FootprintsOverlap(a, b) ==
    /\ Abs(getPosition(obj[a]).x - getPosition(obj[b]).x) < getExtents(obj[a]).x + getExtents(obj[b]).x + distanceEPS
    /\ Abs(getPosition(obj[a]).z - getPosition(obj[b]).z) < getExtents(obj[a]).z + getExtents(obj[b]).z + distanceEPS

CanSupport(a, b) ==
    /\ isSupported(obj[b]) \/ isStatic(obj[b])
    /\ getPosition(obj[a]).d = getPosition(obj[b]).d
    /\ FootprintsOverlap(a, b)

UnitTested(e) == pc = "unit" /\ e \in supportLog /\ ~isStatic(obj[e.a])

(* C18 as stated: isSupportedBy(a, b) for a non-static a is true exactly   *)
(* when b is supported or static, both are in the same dimension, the XZ   *)
(* footprints overlap within distanceEPS and the bottom of a is between 0  *)
(* and 4 * distanceEPS + extentsSum.y above the top of b.                  *)
C18_BottomBand ==
    \A e \in supportLog : UnitTested(e) =>
        (e.result <=> /\ CanSupport(e.a, e.b)
                      /\ BottomAboveTop(e.a, e.b) >= 0
                      /\ BottomAboveTop(e.a, e.b) <= 4 * distanceEPS + ExtentsSumY(e.a, e.b))

(* C18 as amended: ... and the centre of a is more than 0 and less than    *)
(* 4 * distanceEPS + extentsSum.y above the centre of b, that is, the      *)
(* bottom of a is more than -extentsSum.y and less than 4 * distanceEPS    *)
(* above the top of b: true for an a that penetrates b from above, false   *)
(* for an a whose bottom is 4 * distanceEPS or more above the top of b.    *)
C18_CentreBand ==
    \A e \in supportLog : UnitTested(e) =>
        (e.result <=> /\ CanSupport(e.a, e.b)
                      /\ BottomAboveTop(e.a, e.b) > -ExtentsSumY(e.a, e.b)
                      /\ BottomAboveTop(e.a, e.b) < 4 * distanceEPS)

C18_Witness ==
    /\ \E e \in supportLog : UnitTested(e) /\ e.result /\ BottomAboveTop(e.a, e.b) < 0
    /\ \E e \in supportLog : UnitTested(e) /\ ~e.result /\ CanSupport(e.a, e.b) /\ BottomAboveTop(e.a, e.b) = 4 * distanceEPS

(* the flags are those a support loop over order gives: a live non-static  *)
(* body is supported iff a live body before it in order supports it        *)
SupportedAlong(order) ==
    \A i \in 1..Len(order) :
        LET objectA == obj[order[i]]
        IN  (~isDestroyed(objectA) /\ ~isStatic(objectA)) =>
                (isSupported(objectA) <=> \E j \in 1..(i - 1) : ~isDestroyed(obj[order[j]]) /\ isSupportedBy(objectA, obj[order[j]]))

Correction(b) ==
    LET n == adjustPosition(setupNewState(obj[1]), obj[b])
    IN  [position |-> n.position[getNewVariableSetIndex], velocity |-> n.velocity[getNewVariableSetIndex]]

(* the sum of a coordinate over the first i corrections of adjustLog *)
RECURSIVE CorrectionSum(_, _, _)
CorrectionSum(i, slot, axis) == IF i = 0 THEN 0 ELSE Correction(adjustLog[i][2])[slot][axis] + CorrectionSum(i - 1, slot, axis)

(* the new slot after the corrections of log are committed in that order *)
RECURSIVE Committed(_, _, _)
Committed(o, log, i) == IF i > Len(log) THEN o ELSE Committed(setNewState(o, Correction(log[i][2]).position, Correction(log[i][2]).velocity), log, i + 1)

(* k coordinates of one thousandth each: what the roundings of k - 1       *)
(* divisions can add up to, times k                                        *)
MeanTolerance(k) == k * (k - 1)

(* C20: after setupNewState and k corrections committed through            *)
(* setNewState the counter is k; for k = 0 the new slot equals the old     *)
(* slot; for k >= 1 every coordinate of the new position and velocity is   *)
(* the arithmetic mean of the k corrections, the copied state not being    *)
(* part of it, and committing the corrections in any other order gives     *)
(* the same slot, both up to the rounding of the divisions.                *)
C20_NewSlotIsMean ==
    pc = "adjust" =>
        LET k == Len(adjustLog)
            new == getNewVariableSetIndex
        IN  /\ obj[1].newStateCount = k
            /\ k = 0 => NewSlot(obj[1]) = OldSlot(obj[1])
            /\ k >= 1 => \A slot \in {"position", "velocity"}, axis \in {"x", "y", "z"} :
                   Abs(k * obj[1][slot][new][axis] - CorrectionSum(k, slot, axis)) <= MeanTolerance(k)
            /\ k >= 1 => \A log \in Perms(adjustLog) :
                   LET other == Committed(setupNewState(obj[1]), log, 1)
                   IN  \A slot \in {"position", "velocity"}, axis \in {"x", "y", "z"} :
                           Abs(other[slot][new][axis] - obj[1][slot][new][axis]) <= k - 1

C20_Witness ==
    /\ pc = "adjust"
    /\ Len(adjustLog) = 3
    /\ \A b, c \in 2..Len(obj) : (<<1, b>> \in Range(adjustLog) /\ <<1, c>> \in Range(adjustLog) /\ b # c) => Correction(b) # Correction(c)
    /\ \A b \in 2..Len(obj) : <<1, b>> \in Range(adjustLog) => Correction(b).position # obj[1].position[getNewVariableSetIndex]
    /\ obj[1].position[getNewVariableSetIndex] # obj[1].position[getOldVariableSetIndex]

(* a pass of the current step has just ended *)
PassEnded == pc = "pass" /\ passI >= 1

(* C21: every fixed step runs at least 1 and at most MaxPasses passes: a   *)
(* step ends only after a pass, the pass count never exceeds the cap, a    *)
(* pass that made an adjustPosition call is followed by another pass       *)
(* unless it was the last allowed, and a pass without one ends the step.   *)
C21_PassCount ==
    [][/\ passI' <= MaxPasses
       /\ (pc = "pass" /\ pc' = "step") => passI >= 1
       /\ (PassEnded /\ adjustLog # <<>> /\ passI < MaxPasses) => pc' = "build"
       /\ (PassEnded /\ adjustLog = <<>>) => pc' = "step"
       /\ (PassEnded /\ passI = MaxPasses) => pc' = "step"]_vars

C21_Witness == PassEnded /\ passI >= 2 /\ passI < MaxPasses /\ adjustLog = <<>> /\ ~anyCollisions

(* a body without what adjustPosition may write: the new slot, the         *)
(* accumulation counter and the update counter                             *)
Untouched(o) ==
    [o EXCEPT !.position[getNewVariableSetIndex] = 0,
              !.velocity[getNewVariableSetIndex] = 0,
              !.objectTime[getNewVariableSetIndex] = 0,
              !.newStateCount = 0,
              !.latestUpdateTag = 0]

(* the step is a call adjustPosition(a, b) *)
AdjustCalled(a, b) == pc = "adjust" /\ adjustLog' = Append(adjustLog, <<a, b>>)

(* C22: a call adjustPosition(a, b) leaves every body but a as it was,     *)
(* leaves everything of a but its new slot, newStateCount and              *)
(* latestUpdateTag as it was, leaves the world (time, parity, live set,    *)
(* changedObjects keys) as it was, and changes nothing when a is static.   *)
C22_OneSided ==
    [][\A a, b \in DOMAIN obj : AdjustCalled(a, b) =>
          /\ \A h \in DOMAIN obj \ {a} : obj'[h] = obj[h]
          /\ Untouched(obj[a])' = Untouched(obj[a])
          /\ isStatic(obj[a]) => obj' = obj
          /\ <<currentTime, variableSetIndex, objects, changedObjects>>' = <<currentTime, variableSetIndex, objects, changedObjects>>]_vars

C22_Witness ==
    /\ pc = "adjusted"
    /\ \E a \in DOMAIN obj : /\ adjustLog = <<<<a, 1>>>>
                             /\ ~isStatic(obj[a])
                             /\ obj[a].newStateCount = 1
                             /\ NewSlot(obj[a]) # OldSlot(obj[a])
                             /\ obj[1].newStateCount = 0

NoDuplicates(s) == \A i, j \in DOMAIN s : i # j => s[i] # s[j]

(* C23: while and after the cells of objectA are walked the candidate list *)
(* holds no body twice, and in a pass adjustPosition is called at most     *)
(* once for an ordered pair (A, B) and never with B = A.                   *)
C23_CandidatesOnce ==
    /\ pc = "query" => NoDuplicates(collideObjectsList)
    /\ NoDuplicates(adjustLog)
    /\ \A i \in DOMAIN adjustLog : adjustLog[i][1] # adjustLog[i][2]

C23_Witness ==
    /\ pc = "resolve"
    /\ resolveI > 1
    /\ LET a == objects[resolveI - 1]
       IN  /\ ~isStatic(obj[a])
           /\ a \in Range(collideObjectsList)
           /\ Len(collideObjectsList) = Len(objects)
           /\ \E b \in Range(objects) : Hashed(b) /\ <<a, b>> \in Range(adjustLog)

(* the callbacks of a list applied in order to a state, empty ones skipped *)
RECURSIVE ConstraintOutput(_, _, _)
ConstraintOutput(list, state, i) ==
    IF i > Len(list) THEN state
    ELSE ConstraintOutput(list, IF list[i] = "null" THEN state ELSE ApplyConstraint(list[i], state), i + 1)

(* the new slot of h as the narrow phase of this pass leaves it *)
PostResolution(h) ==
    LET n == NarrowLoop([a |-> setupNewState(obj[h]), log |-> <<>>], h, Candidates(obj[h]), 1)
    IN  [position |-> n.a.position[getNewVariableSetIndex], velocity |-> n.a.velocity[getNewVariableSetIndex]]

Constrained(h) == h \in Live /\ ~isStatic(obj[h]) /\ obj[h].constraints # nullptr

NewState(o) == [position |-> o.position[getNewVariableSetIndex], velocity |-> o.velocity[getNewVariableSetIndex]]

(* C24: at the end of a pass the new slot of a non-static body with        *)
(* constraints is the output of its constraint list on its post-resolution *)
(* state; the parity flip makes that state the one getPosition() and       *)
(* getVelocity() return, and neither the end of the step nor the return    *)
(* changes a body.                                                         *)
C24_ConstraintsLast ==
    /\ [](PassDone => \A h \in DOMAIN obj : Constrained(h) =>
             NewState(obj[h]) = ConstraintOutput(obj[h].constraints[1], PostResolution(h), 1))
    /\ [][(pc = "resolve" /\ pc' = "pass") => \A h \in DOMAIN obj : Constrained(h) =>
             (getPosition(obj[h])' = NewState(obj[h]).position /\ getVelocity(obj[h])' = NewState(obj[h]).velocity)]_vars
    /\ [][((pc = "pass" /\ pc' = "step") \/ (pc = "step" /\ pc' = "idle")) => (obj' = obj /\ currentTime' = currentTime)]_vars

C24_Witness ==
    /\ PassEnded
    /\ \E h \in DOMAIN obj : /\ Constrained(h)
                             /\ \E b \in Live : <<h, b>> \in Range(adjustLog)
                             /\ <<h, 3>> \in Range(constraintLog)
                             /\ getPosition(obj[h]) = [PinPosition EXCEPT !.x = @ + 100]

(* objectA of an iteration of the resolution loop that is over *)
Resolved(a) == pc = "resolve" /\ \E i \in 1..(resolveI - 1) : objects[i] = a /\ ~isStatic(obj[a])

(* the bodies adjustPosition(a, .) was called with in this pass *)
ResolvedAgainst(a) == {b \in DOMAIN obj : <<a, b>> \in Range(adjustLog)}

(* what a test of a against every other live body gives *)
BruteForce(a) == {b \in Live \ {a} : collides(obj[a], obj[b])}

(* C25: once objectA is resolved, adjustPosition(A, B) has been called for *)
(* exactly the live bodies B other than A with collides(A, B), hashed or   *)
(* in the fallback list, static or not; and when the walk of the cells of  *)
(* objectA is over, the list holds the fallback bodies followed by the     *)
(* hashed bodies whose cell range meets that of objectA.                   *)
C25_NoPairLost ==
    /\ \A a \in DOMAIN obj : Resolved(a) => ResolvedAgainst(a) = BruteForce(a)
    /\ (pc = "query" /\ queryCell > Len(CellsOf(CellRange(obj[objects[resolveI]])))) =>
           collideObjectsList = SubSeq(collideObjectsList, 1, startCollideObjectsListSize) \o Gather(overallHashTable, CellRange(obj[objects[resolveI]]))

C25_Witness ==
    /\ PassDone
    /\ \E a, b, c \in Live : /\ ~isStatic(obj[a]) /\ ~Hashed(a)
                             /\ Hashed(b) /\ b \in ResolvedAgainst(a) /\ a \in ResolvedAgainst(b)
                             /\ isStatic(obj[c]) /\ c \in ResolvedAgainst(a)
                             /\ \E d \in Live : Hashed(d) /\ d \notin BruteForce(a)

(* the reads of o return the stored old slot, whatever the supported flag *)
ReadsStored(o) ==
    /\ o.objectTime[getOldVariableSetIndex] = currentTime
    /\ \A flag \in BOOLEAN :
          /\ getPosition([o EXCEPT !.supported = flag]) = o.position[getOldVariableSetIndex]
          /\ getVelocity([o EXCEPT !.supported = flag]) = o.velocity[getOldVariableSetIndex]

(* C26: while the world is idle, and when a pass is over, before and after *)
(* the parity flip, the old slot of every live body that is not destroyed  *)
(* has the current world time, so getPosition() and getVelocity() return   *)
(* the stored old-slot values whatever the supported flag is.              *)
C26_OldSlotIsCurrent ==
    (pc = "idle" \/ PassDone \/ PassEnded) => \A h \in Live : ~isDestroyed(obj[h]) => ReadsStored(obj[h])

C26_Witness ==
    /\ pc = "idle"
    /\ currentTime > stepDuration
    /\ \E h \in Live : /\ ~isDestroyed(obj[h]) /\ ~isStatic(obj[h])
                       /\ isAffectedByGravity(obj[h]) /\ ~isSupported(obj[h])
                       /\ obj[h].velocity[getOldVariableSetIndex].y < 0
                       /\ obj[h].latestUpdateTag > 0

(* in the pass that has ended a collided with b and with nothing else *)
CollidedOnlyWith(a, b) == {e \in Range(adjustLog) : e[1] = a} = {<<a, b>>}

(* the distance between the facing surfaces of a and b along an axis *)
GapAlong(a, b, axis) == Abs(getPosition(obj[a])[axis] - getPosition(obj[b])[axis]) - (getExtents(obj[a])[axis] + getExtents(obj[b])[axis])

(* the parity has flipped after the corrections *)
Flipped == PassEnded \/ pc = "flipped"

(* C27: after a pass in which a non-static body A without constraints      *)
(* collided with one body B only, a static one, A does not collide with B,  *)
(* its position differs from the one before the pass along exactly one     *)
(* axis, and along that axis the boxes are 2 * distanceEPS apart.           *)
C27_StaticContactSeparates ==
    Flipped => \A a \in Live, b \in Live :
        (CollidedOnlyWith(a, b) /\ isStatic(obj[b]) /\ ~isStatic(obj[a]) /\ obj[a].constraints = nullptr) =>
            /\ ~collides(obj[a], obj[b])
            /\ \E axis \in {"x", "y", "z"} : /\ MovedAxes(a) = {axis}
                                             /\ GapAlong(a, b, axis) = 2 * distanceEPS

C27_Witness ==
    /\ Flipped
    /\ \E a \in Live, b \in Live : /\ CollidedOnlyWith(a, b) /\ isStatic(obj[b]) /\ ~isStatic(obj[a]) /\ obj[a].constraints = nullptr
                                   /\ MovedAxes(a) = {"x"}
                                   /\ getPosition(obj[a]).x > getPosition(obj[b]).x

(* ------------------------------- C28 ---------------------------------- *)
(* the bodies of the world: in the live set and not destroyed *)
InWorld == {h \in Live : ~isDestroyed(obj[h])}

(* what a caller observes of the bodies of the world *)
ObserveWorld == [h \in InWorld |-> Observe(obj[h])]

(* zero velocity, no constraints, non-static bodies flagged supported, no colliding pair *)
StatedRest ==
    /\ \A h \in InWorld : /\ getVelocity(obj[h]) = VectorF(0, 0, 0)
                          /\ obj[h].constraints = nullptr
                          /\ (~isStatic(obj[h]) => isSupported(obj[h]))
    /\ \A a \in InWorld, b \in InWorld : a # b => ~collides(obj[a], obj[b])

(* b is a body the support phase finds under a: lower bottom, within the band *)
RestsOn(a, b) == /\ a # b
                 /\ BottomHeight(obj[b]) < BottomHeight(obj[a])
                 /\ isSupportedBy(obj[a], obj[b])

(* the flags are the ones the support phase computes from this state *)
SettledRest ==
    /\ StatedRest
    /\ \A h \in InWorld : /\ isSupported(obj[h])
                          /\ (~isStatic(obj[h]) => \E b \in InWorld : RestsOn(h, b))

(* a step of runToTime, its entry and its return included *)
InCall == pc # "idle" \/ pc' # "idle"

(* C28 as stated: from a state where every body has zero velocity, every   *)
(* non-static body is flagged supported, no pair collides and no body has  *)
(* constraints, no step of stepTime changes a body's position, velocity or *)
(* supported flag.                                                         *)
C28_RestIsFixedPoint ==
    [][(InCall /\ StatedRest) => (InWorld' = InWorld /\ ObserveWorld' = ObserveWorld)]_vars

(* C28 amended: when moreover every body is flagged supported and every    *)
(* non-static body lies within the support band of a body with a lower     *)
(* bottom, no step of stepTime changes a body's position, velocity or      *)
(* supported flag, and the state stays such a rest.                        *)
C28_SettledRestIsFixedPoint ==
    [][(InCall /\ SettledRest) => (InWorld' = InWorld /\ ObserveWorld' = ObserveWorld /\ SettledRest')]_vars

C28_Witness ==
    /\ AboutToReturn
    /\ currentTime > 0
    /\ SettledRest
    /\ \E h \in InWorld : ~isStatic(obj[h]) /\ isAffectedByGravity(obj[h])

(* ------------------- the support phase and the order ------------------ *)
(* heights of the centre of the tall body: its bottom below, level with,   *)
(* and above the bottom of the slab                                        *)
OrderYs == {400, 500, 510}

(* a static slab, a tall body over a part of it, a box on top of the tall body *)
OrderBodies(y) ==
    << [position |-> PositionF(0, 0, 0, Overworld), velocity |-> VectorF(0, 0, 0), affectedByGravity |-> FALSE, isStatic |-> TRUE, extents |-> Box, properties |-> PhysicsProperties(DefaultBounce, DefaultSlide)],
       [position |-> PositionF(300, y, 0, Overworld), velocity |-> VectorF(0, 0, 0), affectedByGravity |-> FALSE, isStatic |-> FALSE, extents |-> VectorF(500, 1000, 500), properties |-> PhysicsProperties(DefaultBounce, DefaultSlide)],
       [position |-> PositionF(300, y + 1505, 0, Overworld), velocity |-> VectorF(0, 0, 0), affectedByGravity |-> TRUE, isStatic |-> FALSE, extents |-> Box, properties |-> PhysicsProperties(DefaultBounce, DefaultSlide)] >>

(* the bodies are made, runToTime(stepDuration) has been entered *)
InitOrder ==
    /\ currentTime = 0
    /\ variableSetIndex = 0
    /\ \E y \in OrderYs, garbage \in [1..3 -> BOOLEAN] :
          obj = [i \in 1..3 |-> PhysicsObjectCtor(OrderBodies(y)[i], garbage[i])]
    /\ objects \in Perms(<<1, 2, 3>>)
    /\ changedObjects = 1..3
    /\ pc = "step"
    /\ startTime = 0
    /\ stopTime = stepDuration
    /\ stepCount = 1
    /\ stepI = 1
    /\ passI = 0
    /\ anyCollisions = FALSE
    /\ collideObjectsList = <<>>
    /\ overallHashTable = <<>>
    /\ resolveI = 0
    /\ queryCell = 0
    /\ supportLog = {}
    /\ adjustLog = <<>>
    /\ constraintLog = <<>>
    /\ StreamPipeCtor

NextOrder ==
    \/ BeginStep
    \/ EndStep
    \/ SupportPhase
    \/ BuildPhase
    \/ ResolveObject
    \/ EndPass

SpecOrder == InitOrder /\ [][NextOrder]_vars

(* ------------------------------- C29 ---------------------------------- *)
(* the flags the support phase leaves when the sort yields this order *)
SupportFlags(objectsVector) ==
    LET r == SupportLoop(obj, {}, objectsVector, 1)
    IN  [h \in Range(objects) |-> isSupported(r.os[h])]

(* C29: at the start of a pass, every order of the live set that the sort  *)
(* by bottom height can yield gives every body the same supported flag.    *)
C29_FlagsIgnoreOrder ==
    (pc = "pass" /\ PassLoopTest) =>
        \A p \in SortedOrders(obj, objects), q \in SortedOrders(obj, objects) : SupportFlags(p) = SupportFlags(q)

(* ------------------- the pipe, one reader, one writer ----------------- *)
physicsVars == <<worldVars, objects, changedObjects, obj, pc, callVars, passVars, logVars>>

(* pipe->lock.lock() returns once no thread holds the mutex *)
LockFree == pipe.lock = "free"

(* the writer thread calls writeByte(v) *)
WriteByteCall(v) ==
    /\ threadPc.writer = "idle"
    /\ Len(written) < MaxWrites
    /\ written' = Append(written, v)
    /\ threadPc' = [threadPc EXCEPT !.writer = "writeByte"]
    /\ UNCHANGED <<physicsVars, pipe, received>>

(* line 102, and the return of cond.wait at line 113: the mutex is taken *)
WriteByteLock ==
    /\ threadPc.writer \in {"writeByte", "writeWake"}
    /\ LockFree
    /\ pipe' = [pipe EXCEPT !.lock = "writer"]
    /\ threadPc' = [threadPc EXCEPT !.writer = "writeLoop"]
    /\ UNCHANGED <<physicsVars, written, received>>

(* lines 103-116: one iteration of while(true), then push and unlock *)
WriteByteLoop ==
    /\ threadPc.writer = "writeLoop"
    /\ IF pipe.closed
       THEN \* unlock, throw IOException
            /\ pipe' = [pipe EXCEPT !.lock = "free"]
            /\ threadPc' = [threadPc EXCEPT !.writer = "idle"]
       ELSE IF HasRoom(pipe.buffer)
       THEN \* break, push, unlock
            /\ pipe' = [pipe EXCEPT !.buffer = push_back(@, written[Len(written)]), !.lock = "free"]
            /\ threadPc' = [threadPc EXCEPT !.writer = "idle"]
       ELSE \* notify_all, wait: the mutex is released
            /\ pipe' = [pipe EXCEPT !.lock = "free"]
            /\ threadPc' = [notify_all(threadPc) EXCEPT !.writer = "writeWait"]
    /\ UNCHANGED <<physicsVars, written, received>>

(* lines 119-124: flush *)
Flush ==
    /\ threadPc.writer = "idle"
    /\ LockFree
    /\ threadPc' = notify_all(threadPc)
    /\ UNCHANGED <<physicsVars, pipe, written, received>>

(* lines 92-98: ~PipeWriter *)
WriterDtor ==
    /\ threadPc.writer = "idle"
    /\ LockFree
    /\ pipe' = [pipe EXCEPT !.closed = TRUE]
    /\ threadPc' = [notify_all(threadPc) EXCEPT !.writer = "gone"]
    /\ UNCHANGED <<physicsVars, written, received>>

(* the reader thread calls readByte() *)
ReadByteCall ==
    /\ threadPc.reader \in {"idle", "eof"}
    /\ threadPc' = [threadPc EXCEPT !.reader = "readByte"]
    /\ UNCHANGED <<physicsVars, pipe, written, received>>

(* lines 59-63: lock, notify_all if the buffer is empty *)
ReadByteLock ==
    /\ threadPc.reader = "readByte"
    /\ LockFree
    /\ pipe' = [pipe EXCEPT !.lock = "reader"]
    /\ threadPc' = [(IF empty(pipe.buffer) THEN notify_all(threadPc) ELSE threadPc) EXCEPT !.reader = "readLoop"]
    /\ UNCHANGED <<physicsVars, written, received>>

(* the return of cond.wait at line 73: the mutex is taken again *)
ReadByteRelock ==
    /\ threadPc.reader = "readWake"
    /\ LockFree
    /\ pipe' = [pipe EXCEPT !.lock = "reader"]
    /\ threadPc' = [threadPc EXCEPT !.reader = "readLoop"]
    /\ UNCHANGED <<physicsVars, written, received>>

(* lines 64-78: one iteration of while(true), then front, pop and unlock *)
ReadByteLoop ==
    /\ threadPc.reader = "readLoop"
    /\ IF ~empty(pipe.buffer)
       THEN \* break, retval = front(), pop, unlock, return retval
            /\ pipe' = [pipe EXCEPT !.buffer = pop_front(@), !.lock = "free"]
            /\ received' = Append(received, front(pipe.buffer))
            /\ threadPc' = [threadPc EXCEPT !.reader = "idle"]
       ELSE IF pipe.closed
       THEN \* unlock, throw EOFException
            /\ pipe' = [pipe EXCEPT !.lock = "free"]
            /\ threadPc' = [threadPc EXCEPT !.reader = "eof"]
            /\ UNCHANGED received
       ELSE \* wait: the mutex is released
            /\ pipe' = [pipe EXCEPT !.lock = "free"]
            /\ threadPc' = [threadPc EXCEPT !.reader = "readWait"]
            /\ UNCHANGED received
    /\ UNCHANGED <<physicsVars, written>>

(* lines 50-56: ~PipeReader *)
ReaderDtor ==
    /\ threadPc.reader \in {"idle", "eof"}
    /\ LockFree
    /\ pipe' = [pipe EXCEPT !.closed = TRUE]
    /\ threadPc' = [notify_all(threadPc) EXCEPT !.reader = "gone"]
    /\ UNCHANGED <<physicsVars, written, received>>

(* condition_variable_any::wait may return without a notification *)
SpuriousWakeup ==
    /\ \E t \in DOMAIN threadPc : threadPc[t] \in {"readWait", "writeWait"}
    /\ \E t \in {t \in DOMAIN threadPc : threadPc[t] \in {"readWait", "writeWait"}} :
          threadPc' = [threadPc EXCEPT ![t] = IF @ = "readWait" THEN "readWake" ELSE "writeWake"]
    /\ UNCHANGED <<physicsVars, pipe, written, received>>

NextPipe ==
    \/ \E v \in Bytes : WriteByteCall(v)
    \/ WriteByteLock
    \/ WriteByteLoop
    \/ Flush
    \/ WriterDtor
    \/ ReadByteCall
    \/ ReadByteLock
    \/ ReadByteRelock
    \/ ReadByteLoop
    \/ ReaderDtor
    \/ SpuriousWakeup

SpecPipe == Init /\ [][NextPipe]_vars

(* ------------------------------- C30 ---------------------------------- *)
(* the bytes in the buffer, oldest first *)
RECURSIVE Contents(_)
Contents(d) == IF empty(d) THEN <<>> ELSE <<front(d)>> \o Contents(pop_front(d))

IsPrefix(s, t) == Len(s) <= Len(t) /\ s = SubSeq(t, 1, Len(s))

(* readByte throws EOFException in this step *)
EOFThrown == threadPc.reader = "readLoop" /\ threadPc'.reader = "eof"

(* the bytes of the writeByte calls that have returned *)
Accepted == IF threadPc.writer \in {"idle", "gone"} THEN written ELSE SubSeq(written, 1, Len(written) - 1)

(* C30: with one writer thread and one reader thread, in every state the   *)
(* bytes returned by readByte are a prefix of the bytes passed to          *)
(* writeByte; followed by the buffered bytes they are a prefix too, and    *)
(* while the pipe is open they are exactly the bytes of the writeByte      *)
(* calls that have returned; the buffer holds at most bufferSize bytes;    *)
(* and readByte throws EOFException only when the pipe is closed and the   *)
(* buffer is empty.                                                        *)
C30_PipeIsFifo ==
    /\ [](/\ IsPrefix(received, written)
          /\ IsPrefix(received \o Contents(pipe.buffer), written)
          /\ (~pipe.closed => received \o Contents(pipe.buffer) = Accepted)
          /\ size(pipe.buffer) = Len(Contents(pipe.buffer))
          /\ size(pipe.buffer) <= bufferSize)
    /\ [][EOFThrown => (pipe.closed /\ empty(pipe.buffer))]_vars

(* the writer has gone after MaxWrites bytes of different values, more     *)
(* than the array holds; the reader has received them all and has then     *)
(* been told the end                                                       *)
C30_Witness ==
    /\ threadPc.reader = "eof"
    /\ threadPc.writer = "gone"
    /\ Len(received) = MaxWrites
    /\ MaxWrites > arraySize
    /\ received = written
    /\ \E i, j \in 1..Len(received) : received[i] # received[j]
====
